---- MODULE Spec2Model ----
(***************************************************************************)
(* Model of the To-do application's REST backend (backend/routes/todos.js  *)
(* over the Todo collection of backend/models/Todo.js).                    *)
(*                                                                         *)
(* Strings are sequences of one-character strings, so that trimming,       *)
(* length limits, binary string order and pattern matching are computed.   *)
(* An optional value is a sequence of length 0 (absent, undefined, or null *)
(* for a stored deadline) or 1 (present).  Instants are integers, in the    *)
(* clients a number of minutes.                                            *)
(*                                                                         *)
(*   todos     the Todo collection, a set of documents                     *)
(*   nextId    the number of identifiers the store has issued              *)
(*   now       the clock                                                   *)
(*   inflight  the list request between its find and its count query      *)
(*   res       the last response sent, with the request it answers         *)
(*   log       the responses sent so far, where they are kept              *)
(*   writing   the store's multi-document write in progress                *)
(*   client    the state of the component the browser has mounted: App,    *)
(*             the offline client, or TodoApp, the client of the backend   *)
(*   view      what the component rendered last                            *)
(*   zone      the browser's local time minus UTC                          *)
(*                                                                         *)
(* Spec serves sequences of requests from the empty collection, each       *)
(* handler in one step.  SpecList serves one list or bulk request on each  *)
(* store of a family of stores, over the combinations of query arguments.  *)
(* SpecRace serves the list handler as its two store calls, with other     *)
(* requests in between.  SpecPair serves one request on each store of a    *)
(* family of stores and then the request a caller sends next: the same     *)
(* bulk action again, or a fetch of the task just created.  SpecBulkRace   *)
(* serves a bulk action as the store's single writes, with requests of the *)
(* same user in between.  SpecStatus renders one task for every deadline   *)
(* and clock, in either client.  SpecView renders lists of tasks under    *)
(* every filter and sort key.  SpecFetch is the first fetch of TodoApp on  *)
(* stores of up to one task more than a page.  SpecEdit runs the user's    *)
(* actions on the task list of either client, each at a later instant,     *)
(* with the responses of the server to TodoApp in between.                 *)
(***************************************************************************)
EXTENDS Integers, Sequences, FiniteSets, TLC

VARIABLES todos, nextId, now, inflight, res, log, writing, client, view, zone

vars == <<todos, nextId, now, inflight, res, log, writing, client, view, zone>>

\* The state of the clients.
clients == <<client, view, zone>>

\* What a user's action in a client leaves alone, the log and the clock aside.
idle == <<todos, nextId, inflight, res, writing, view, zone>>

\* What a request handler leaves alone.
others == <<log, writing, clients>>

\* ------------------------------------------------------------------ bounds

\* Number of documents ever created in the collection.
MaxTodos == 2

\* Last instant of the clock.
MaxNow == 2

\* ------------------------------------------------- constants of the program

DefaultPage == 1
DefaultLimit == 10
MaxLimit == 100
MaxSearchLen == 100
MaxTextLen == 500
MaxCategoryLen == 50

Users == {"u1", "u2"}

\* ----------------------------------------------------------------- strings

\* UTF-16 code unit of a character: JavaScript and BSON compare strings by it.
CharCode(c) ==
  CASE c = " " -> 32 [] c = "." -> 46 [] c = "A" -> 65 [] c = "B" -> 66
    [] c = "a" -> 97 [] c = "b" -> 98 [] c = "d" -> 100 [] c = "e" -> 101
    [] c = "g" -> 103 [] c = "h" -> 104 [] c = "i" -> 105 [] c = "l" -> 108
    [] c = "m" -> 109 [] c = "o" -> 111 [] c = "u" -> 117 [] c = "w" -> 119
    [] c = "x" -> 120

ToLower(c) == CASE c = "A" -> "a" [] c = "B" -> "b" [] OTHER -> c

Min(a, b) == IF a <= b THEN a ELSE b

\* A string of n copies of c.
Repeat(c, n) == [i \in 1..n |-> c]

RECURSIVE TrimStart(_)
TrimStart(s) == IF s # <<>> /\ Head(s) = " " THEN TrimStart(Tail(s)) ELSE s

RECURSIVE TrimEnd(_)
TrimEnd(s) ==
  IF s # <<>> /\ s[Len(s)] = " " THEN TrimEnd(SubSeq(s, 1, Len(s) - 1)) ELSE s

\* String.prototype.trim, the validator's and the schema's trim.
Trim(s) == TrimEnd(TrimStart(s))

\* Binary string order (BSON string comparison with no collation): a < b.
RECURSIVE StrLess(_, _)
StrLess(a, b) ==
  IF b = <<>> THEN FALSE
  ELSE IF a = <<>> THEN TRUE
  ELSE IF Head(a) # Head(b) THEN CharCode(Head(a)) < CharCode(Head(b))
  ELSE StrLess(Tail(a), Tail(b))

\* RegExp match of pattern p at the start of text t, option 'i'.  The
\* alphabet's only metacharacter is ".", which matches any one character.
RECURSIVE RegexMatchHere(_, _)
RegexMatchHere(p, t) ==
  IF p = <<>> THEN TRUE
  ELSE IF t = <<>> THEN FALSE
  ELSE /\ \/ Head(p) = "."
          \/ ToLower(Head(p)) = ToLower(Head(t))
       /\ RegexMatchHere(Tail(p), Tail(t))

\* { $regex: p, $options: 'i' }: an unanchored match anywhere in t.
RegexTest(p, t) ==
  \E i \in 0..Len(t) : RegexMatchHere(p, SubSeq(t, i + 1, Len(t)))

\* ------------------------------------------------------- request arguments

\* A raw argument that may be missing, an integer literal, an ISO date (its
\* instant), JSON null, or text that is none of these.
Absent == [k |-> "absent"]
IntArg(n) == [k |-> "int", n |-> n]
DateArg(t) == [k |-> "date", n |-> t]
NullArg == [k |-> "null"]
\* An ISO 8601 week date: isISO8601 accepts it, Date does not parse it.
WeekArg == [k |-> "week"]
Junk == [k |-> "junk"]

IsInt(v, min) == v.k = "int" /\ v.n >= min

\* isInt({ min }) in place of isInt({ min, max }).
IsIntNoMax(v, min, max) == IsInt(v, min)

IsIntIn(v, min, max) == IsInt(v, min) /\ v.n <= max

\* validator isBoolean (strict): the accepted spellings.
IsBoolean(s) == s \in {"true", "false", "1", "0"}

\* Mongoose's Boolean cast of a value that passed isBoolean.
CastBoolean(s) == s \in {"true", "1"}

PriorityLow == <<"l", "o", "w">>
PriorityMedium == <<"m", "e", "d", "i", "u", "m">>
PriorityHigh == <<"h", "i", "g", "h">>
Priorities == {PriorityLow, PriorityMedium, PriorityHigh}

SortFields == {"createdAt", "deadline", "priority", "text"}
SortOrders == {"asc", "desc"}
BulkActions == {"complete-all", "delete-completed", "delete-all"}

\* ------------------------------------------------------------ the schema

\* Todo.create(todoData): the schema's defaults and timestamps applied.
\* A new document whose deadline is left at the schema's default.
NewTodoNoDeadline(id, user, text, deadline, priority, category, t) ==
  [id |-> id, user |-> user, text |-> Trim(text), completed |-> FALSE,
   deadline |-> <<>>,
   priority |-> IF priority = <<>> THEN PriorityMedium ELSE priority[1],
   category |-> category, createdAt |-> t, updatedAt |-> t]

NewTodo(id, user, text, deadline, priority, category, t) ==
  [id |-> id, user |-> user, text |-> Trim(text), completed |-> FALSE,
   deadline |-> deadline,
   priority |-> IF priority = <<>> THEN PriorityMedium ELSE priority[1],
   category |-> category, createdAt |-> t, updatedAt |-> t]

OwnedBy(store, u) == {d \in store : d.user = u}

\* ------------------------------------------------------- GET /api/todos

\* The search argument after the validation chain's trim() sanitizer.
SanitizedSearch(q) ==
  IF q.search = <<>> THEN <<>> ELSE <<Trim(q.search[1])>>

\* The fields the validation chain of GET / rejects.
ListErrors(q) ==
  {f \in {"page", "limit", "completed", "search", "sortBy", "sortOrder"} :
     \/ f = "page" /\ q.page # Absent /\ ~IsInt(q.page, 1)
     \/ f = "limit" /\ q.limit # Absent /\ ~IsIntIn(q.limit, 1, MaxLimit)
     \/ f = "completed" /\ q.completed # <<>> /\ ~IsBoolean(q.completed[1])
     \/ f = "search" /\ q.search # <<>>
          /\ Len(SanitizedSearch(q)[1]) > MaxSearchLen
     \/ f = "sortBy" /\ q.sortBy # <<>> /\ q.sortBy[1] \notin SortFields
     \/ f = "sortOrder" /\ q.sortOrder # <<>> /\ q.sortOrder[1] \notin SortOrders}

\* parseInt(req.query.page) || 1 and parseInt(req.query.limit) || 10.
PageOf(q) == IF q.page.k = "int" /\ q.page.n # 0 THEN q.page.n ELSE DefaultPage
LimitOf(q) == IF q.limit.k = "int" /\ q.limit.n # 0 THEN q.limit.n ELSE DefaultLimit
\* skip = page * limit
SkipFromPage(q) == PageOf(q) * LimitOf(q)

SkipOf(q) == (PageOf(q) - 1) * LimitOf(q)

\* req.query.completed === 'true'
CompletedFilter(s) == s = "true"

\* The filter object built from the query; an absent key restricts nothing.
BuildFilter(u, q) ==
  [user |-> u,
   completed |-> IF q.completed # <<>>
                   THEN <<CompletedFilter(q.completed[1])>> ELSE <<>>,
   category |-> IF q.category # <<>> /\ q.category[1] # <<>>
                  THEN q.category ELSE <<>>,
   text |-> IF q.search # <<>> /\ SanitizedSearch(q)[1] # <<>>
              THEN SanitizedSearch(q) ELSE <<>>]

\* The store's evaluation of the filter on one document.
MatchesFilter(d, f) ==
  /\ d.user = f.user
  /\ f.completed = <<>> \/ d.completed = f.completed[1]
  /\ f.category = <<>> \/ d.category = f.category
  /\ f.text = <<>> \/ RegexTest(f.text[1], d.text)

SortByOf(q) == IF q.sortBy # <<>> THEN q.sortBy[1] ELSE "createdAt"

\* req.query.sortOrder === 'desc' ? -1 : 1
SortOrderDefaultAsc(q) ==
  IF q.sortOrder # <<>> /\ q.sortOrder[1] = "desc" THEN -1 ELSE 1

\* req.query.sortOrder === 'asc' ? 1 : -1
SortOrderOf(q) == IF q.sortOrder # <<>> /\ q.sortOrder[1] = "asc" THEN 1 ELSE -1

\* BSON order of the sort key of two documents: null sorts before any date.
KeyLess(field, a, b) ==
  CASE field = "createdAt" -> a.createdAt < b.createdAt
    [] field = "deadline" ->
         \/ a.deadline = <<>> /\ b.deadline # <<>>
         \/ a.deadline # <<>> /\ b.deadline # <<>> /\ a.deadline[1] < b.deadline[1]
    [] field = "priority" -> StrLess(a.priority, b.priority)
    [] field = "text" -> StrLess(a.text, b.text)

\* The orders in which the store may return set S for sort { [field]: dir }:
\* a document that none of the others must precede comes first, then the
\* rest in their order; documents with equal keys come in any order.
RECURSIVE Sorted(_, _, _)
Sorted(S, field, dir) ==
  IF S = {} THEN {<<>>}
  ELSE UNION {{<<d>> \o s : s \in Sorted(S \ {d}, field, dir)} :
                d \in {d \in S :
                         \A e \in S : IF dir = 1 THEN ~KeyLess(field, e, d)
                                                 ELSE ~KeyLess(field, d, e)}}

\* .limit(limit).skip(skip): the cursor skips, then limits.
Page(s, skip, limit) == SubSeq(s, skip + 1, Min(skip + limit, Len(s)))

\* Math.ceil(total / limit)
TotalPages(total, limit) == (total + limit - 1) \div limit

\* Todo.find(filter).sort(sort).limit(limit).skip(skip): the pages the store
\* may return.
FindPage(u, q) ==
  {Page(s, SkipOf(q), LimitOf(q)) :
     s \in Sorted({d \in todos : MatchesFilter(d, BuildFilter(u, q))},
                  SortByOf(q), SortOrderOf(q))}

\* Todo.countDocuments(filter)
CountDocuments(u, q) ==
  Cardinality({d \in todos : MatchesFilter(d, BuildFilter(u, q))})

ListFailure(u, q) ==
  [op |-> "list", user |-> u, req |-> q, status |-> 400,
   errors |-> ListErrors(q)]

ListResponse(u, q, data, total) ==
  LET pages == TotalPages(total, LimitOf(q))
  IN [op |-> "list", user |-> u, req |-> q, status |-> 200, data |-> data,
      pagination |-> [current |-> PageOf(q), total |-> pages,
                      hasNext |-> PageOf(q) < pages,
                      hasPrev |-> PageOf(q) > 1, totalTodos |-> total]]

\* The handler with no other request between its two store calls.
ListTodos(u, q) ==
  /\ inflight = <<>>
  /\ IF ListErrors(q) # {}
       THEN res' = ListFailure(u, q)
       ELSE \E data \in FindPage(u, q) :
              res' = ListResponse(u, q, data, CountDocuments(u, q))
  /\ UNCHANGED <<todos, nextId, now, inflight>>

\* The handler up to its first store call: validation, then the find query.
ListFind(u, q) ==
  /\ inflight = <<>>
  /\ IF ListErrors(q) # {}
       THEN res' = ListFailure(u, q) /\ UNCHANGED inflight
       ELSE /\ \E data \in FindPage(u, q) :
                 inflight' = <<[user |-> u, query |-> q, data |-> data]>>
            /\ UNCHANGED res
  /\ UNCHANGED <<todos, nextId, now>>

\* The handler from its second store call: the count query and the response.
ListCount ==
  /\ inflight # <<>>
  /\ LET r == inflight[1]
     IN res' = ListResponse(r.user, r.query, r.data,
                            CountDocuments(r.user, r.query))
  /\ inflight' = <<>>
  /\ UNCHANGED <<todos, nextId, now>>

\* ----------------------------------------------------- GET /api/todos/:id

\* findOne without the user key of its filter.
FindOneAnyUser(u, id) == {d \in todos : id.k = "int" /\ d.id = id.n}

\* findOne({ _id, user }): a malformed id raises CastError, answered 404.
FindOne(u, id) == {d \in todos : id.k = "int" /\ d.id = id.n /\ d.user = u}

GetTodo(u, id) ==
  /\ res' = IF FindOne(u, id) = {}
              THEN [op |-> "get", user |-> u, id |-> id, status |-> 404,
                    message |-> "Todo not found"]
              ELSE [op |-> "get", user |-> u, id |-> id, status |-> 200,
                    data |-> CHOOSE d \in FindOne(u, id) : TRUE]
  /\ UNCHANGED <<todos, nextId, now, inflight>>

\* ------------------------------------------------------- POST /api/todos

BodyText(b) == IF b.text = <<>> THEN <<>> ELSE Trim(b.text[1])

\* The validation of POST without its isLength checks.
CreateErrorsNoLength(b) ==
  {f \in {"text", "deadline", "priority", "category"} :
     \/ f = "text" /\ BodyText(b) = <<>>
     \/ f = "deadline" /\ b.deadline.k \notin {"absent", "date", "week"}
     \/ f = "priority" /\ b.priority # <<>> /\ b.priority[1] \notin Priorities}

CreateErrors(b) ==
  {f \in {"text", "deadline", "priority", "category"} :
     \/ f = "text" /\ (BodyText(b) = <<>> \/ Len(BodyText(b)) > MaxTextLen)
     \/ f = "deadline" /\ b.deadline.k \notin {"absent", "date", "week"}
     \/ f = "priority" /\ b.priority # <<>> /\ b.priority[1] \notin Priorities
     \/ f = "category" /\ b.category # <<>>
          /\ Len(Trim(b.category[1])) > MaxCategoryLen}

\* new Date(deadline) of a string Date does not parse is an invalid date, which
\* the schema's Date type does not cast: Todo.create rejects and the catch
\* block answers 500.
CreateTodo(u, b) ==
  IF CreateErrors(b) # {}
    THEN /\ res' = [op |-> "create", user |-> u, req |-> b, status |-> 400,
                    errors |-> CreateErrors(b)]
         /\ UNCHANGED <<todos, nextId, now, inflight>>
    ELSE IF b.deadline.k = "week"
    THEN /\ res' = [op |-> "create", user |-> u, req |-> b, status |-> 500,
                    message |-> "Server error while creating todo"]
         /\ UNCHANGED <<todos, nextId, now, inflight>>
    ELSE /\ nextId < MaxTodos
         /\ LET todo == NewTodo(nextId + 1, u, BodyText(b),
                          IF b.deadline.k = "date" THEN <<b.deadline.n>> ELSE <<>>,
                          b.priority,
                          IF b.category # <<>> /\ Trim(b.category[1]) # <<>>
                            THEN <<Trim(b.category[1])>> ELSE <<>>,
                          now)
            IN /\ todos' = todos \cup {todo}
               /\ res' = [op |-> "create", user |-> u, req |-> b, status |-> 201,
                          data |-> todo]
         /\ nextId' = nextId + 1
         /\ UNCHANGED <<now, inflight>>

\* ---------------------------------------------------- PUT /api/todos/:id

UpdateErrors(b) ==
  {f \in {"text", "completed", "deadline", "priority", "category"} :
     \/ f = "text" /\ b.text # <<>>
          /\ (BodyText(b) = <<>> \/ Len(BodyText(b)) > MaxTextLen)
     \/ f = "completed" /\ b.completed # <<>> /\ ~IsBoolean(b.completed[1])
     \/ f = "deadline" /\ b.deadline.k \notin {"absent", "null", "date"}
     \/ f = "priority" /\ b.priority # <<>> /\ b.priority[1] \notin Priorities
     \/ f = "category" /\ b.category # <<>>
          /\ Len(Trim(b.category[1])) > MaxCategoryLen}

\* The assignments of PUT made for every field, one absent from the body
\* taking the value of a new document.
UpdatedTodoEveryField(d, b, t) ==
  LET e == [d EXCEPT
              !.text = IF b.text # <<>> THEN BodyText(b) ELSE @,
              !.completed = IF b.completed # <<>>
                              THEN CastBoolean(b.completed[1]) ELSE FALSE,
              !.deadline = IF b.deadline.k = "date" THEN <<b.deadline.n>>
                           ELSE <<>>,
              !.priority = IF b.priority # <<>> THEN b.priority[1]
                           ELSE PriorityMedium,
              !.category = IF b.category # <<>>
                             THEN <<Trim(b.category[1])>> ELSE <<>>]
  IN IF e = d THEN d ELSE [e EXCEPT !.updatedAt = t]

\* The field assignments of PUT, then save(): updatedAt moves when a field did.
UpdatedTodo(d, b, t) ==
  LET e == [d EXCEPT
              !.text = IF b.text # <<>> THEN BodyText(b) ELSE @,
              !.completed = IF b.completed # <<>>
                              THEN CastBoolean(b.completed[1]) ELSE @,
              !.deadline = CASE b.deadline.k = "date" -> <<b.deadline.n>>
                             [] b.deadline.k = "null" -> <<>>
                             [] OTHER -> @,
              !.priority = IF b.priority # <<>> THEN b.priority[1] ELSE @,
              !.category = IF b.category # <<>>
                             THEN <<Trim(b.category[1])>> ELSE @]
  IN IF e = d THEN d ELSE [e EXCEPT !.updatedAt = t]

UpdateTodo(u, id, b) ==
  IF UpdateErrors(b) # {}
    THEN /\ res' = [op |-> "update", user |-> u, id |-> id, req |-> b,
                    status |-> 400, errors |-> UpdateErrors(b)]
         /\ UNCHANGED <<todos, nextId, now, inflight>>
    ELSE IF FindOne(u, id) = {}
    THEN /\ res' = [op |-> "update", user |-> u, id |-> id, req |-> b,
                    status |-> 404, message |-> "Todo not found"]
         /\ UNCHANGED <<todos, nextId, now, inflight>>
    ELSE LET d == CHOOSE x \in FindOne(u, id) : TRUE
             e == UpdatedTodo(d, b, now)
         IN /\ todos' = (todos \ {d}) \cup {e}
            /\ res' = [op |-> "update", user |-> u, id |-> id, req |-> b,
                       status |-> 200, data |-> e]
            /\ UNCHANGED <<nextId, now, inflight>>

\* ------------------------------------------------- DELETE /api/todos/:id

DeleteTodo(u, id) ==
  /\ todos' = todos \ FindOne(u, id)
  /\ res' = IF FindOne(u, id) = {}
              THEN [op |-> "delete", user |-> u, id |-> id, status |-> 404,
                    message |-> "Todo not found"]
              ELSE [op |-> "delete", user |-> u, id |-> id, status |-> 200,
                    message |-> "Todo deleted successfully"]
  /\ UNCHANGED <<nextId, now, inflight>>

\* --------------------------------------------- GET /api/todos/stats/summary

\* { $lt: ['$deadline', new Date()] } in an aggregation expression compares in
\* BSON order across types, where null is less than every date.
DeadlineLt(d, t) == d.deadline = <<>> \/ d.deadline[1] < t

\* The overdue $cond without its $eq on completed.
OverdueCondAnyState(d, t) == DeadlineLt(d, t)

\* The condition of the overdue $cond.
OverdueCond(d, t) == DeadlineLt(d, t) /\ d.completed = FALSE

\* The $group stage over the matched documents; no group for an empty match.
StatsGroup(S, t) ==
  IF S = {} THEN <<>>
  ELSE <<[total |-> Cardinality(S),
          completed |-> Cardinality({d \in S : d.completed}),
          pending |-> Cardinality({d \in S : ~d.completed}),
          overdue |-> Cardinality({d \in S : OverdueCond(d, t)})]>>

GetStats(u) ==
  /\ LET stats == StatsGroup(OwnedBy(todos, u), now)
     IN res' = [op |-> "stats", user |-> u, status |-> 200, at |-> now,
                data |-> IF stats # <<>> THEN stats[1]
                         ELSE [total |-> 0, completed |-> 0, pending |-> 0,
                               overdue |-> 0]]
  /\ UNCHANGED <<todos, nextId, now, inflight>>

\* ---------------------------------------------------- PATCH /api/todos/bulk

\* The bulk filters without their user key.
BulkMatchAnyUser(u, action) ==
  CASE action = "complete-all" -> {d \in todos : d.completed = FALSE}
    [] action = "delete-completed" -> {d \in todos : d.completed = TRUE}
    [] action = "delete-all" -> todos

\* The bulk filters with complete-all's completed key left out.
BulkMatchAnyState(u, action) ==
  CASE action = "complete-all" -> {d \in todos : d.user = u}
    [] action = "delete-completed" -> {d \in todos : d.user = u /\ d.completed = TRUE}
    [] action = "delete-all" -> {d \in todos : d.user = u}

\* The bulk filters with delete-all given the filter of delete-completed.
BulkMatchAllAsCompleted(u, action) ==
  CASE action = "complete-all" -> {d \in todos : d.user = u /\ d.completed = FALSE}
    [] action = "delete-completed" -> {d \in todos : d.user = u /\ d.completed = TRUE}
    [] action = "delete-all" -> {d \in todos : d.user = u /\ d.completed = TRUE}

\* The bulk filters with delete-completed given the filter of delete-all.
BulkMatchCompletedAsAll(u, action) ==
  CASE action = "complete-all" -> {d \in todos : d.user = u /\ d.completed = FALSE}
    [] action = "delete-completed" -> {d \in todos : d.user = u}
    [] action = "delete-all" -> {d \in todos : d.user = u}

\* The documents a bulk action's filter selects.
BulkMatch(u, action) ==
  CASE action = "complete-all" -> {d \in todos : d.user = u /\ d.completed = FALSE}
    [] action = "delete-completed" -> {d \in todos : d.user = u /\ d.completed = TRUE}
    [] action = "delete-all" -> {d \in todos : d.user = u}

\* updateMany(filter, { completed: true }) under { timestamps: true }.
CompleteAll(S, t) == {[d EXCEPT !.completed = TRUE, !.updatedAt = t] : d \in S}

BulkTodos(u, action) ==
  IF action \notin BulkActions
    THEN /\ res' = [op |-> "bulk", user |-> u, action |-> action, status |-> 400,
                    errors |-> {"action"}]
         /\ UNCHANGED <<todos, nextId, now, inflight>>
    ELSE /\ todos' = IF action = "complete-all"
                       THEN (todos \ BulkMatch(u, action))
                              \cup CompleteAll(BulkMatch(u, action), now)
                       ELSE todos \ BulkMatch(u, action)
         /\ res' = [op |-> "bulk", user |-> u, action |-> action, status |-> 200,
                    modifiedCount |-> Cardinality(BulkMatch(u, action))]
         /\ UNCHANGED <<nextId, now, inflight>>

\* ------------------------------------------------------------ the clients

\* One hour and one day, in minutes.
Hour == 60
Day == 24 * Hour

\* No component is mounted.
NoClient == [component |-> "none"]

\* The state of a component when it mounts: no task, no task in editing,
\* empty edit inputs, the filter 'all' and the sort key 'created'; calls are
\* the requests of TodoApp that await their response.
Mounted(c) ==
  [component |-> c, todos |-> <<>>, editingId |-> <<>>, editText |-> <<>>,
   editDeadline |-> <<>>, editTime |-> <<>>, filter |-> "all",
   sortBy |-> "created", calls |-> {}]

\* Math.ceil(a / b)
Ceil(a, b) == -((-a) \div b)

\* isOverdue with <= for <.
AppIsOverdueOrDue(deadline, t) ==
  IF deadline = <<>> THEN FALSE ELSE deadline[1] <= t

\* App: isOverdue and getDeadlineStatus, with the render's now as t.
AppIsOverdue(deadline, t) ==
  IF deadline = <<>> THEN FALSE ELSE deadline[1] < t

\* getDeadlineStatus with its second test first.
AppGetDeadlineStatusTodayFirst(deadline, completed, t) ==
  IF deadline = <<>> \/ completed THEN "none"
  ELSE LET diffTime == deadline[1] - t
           diffDays == Ceil(diffTime, Day)
       IN IF diffTime <= 24 * Hour /\ diffDays <= 1 THEN "today"
          ELSE IF diffTime < 0 THEN "overdue"
          ELSE IF diffDays <= 3 THEN "soon"
          ELSE "normal"

\* diffHours <= 24 is diffTime / Hour <= 24, that is diffTime <= 24 * Hour.
AppGetDeadlineStatus(deadline, completed, t) ==
  IF deadline = <<>> \/ completed THEN "none"
  ELSE LET diffTime == deadline[1] - t
           diffDays == Ceil(diffTime, Day)
       IN IF diffTime < 0 THEN "overdue"
          ELSE IF diffTime <= 24 * Hour /\ diffDays <= 1 THEN "today"
          ELSE IF diffDays <= 3 THEN "soon"
          ELSE "normal"

\* TodoApp: isOverdue and getDeadlineStatus.
TodoAppIsOverdue(deadline, t) ==
  IF deadline = <<>> THEN FALSE ELSE deadline[1] < t

TodoAppGetDeadlineStatus(deadline, completed, t) ==
  IF deadline = <<>> \/ completed THEN "none"
  ELSE LET diffTime == deadline[1] - t
           diffDays == Ceil(diffTime, Day)
       IN IF diffTime < 0 THEN "overdue"
          ELSE IF diffTime <= 24 * Hour /\ diffDays <= 1 THEN "today"
          ELSE IF diffDays <= 3 THEN "soon"
          ELSE "normal"

\* The functions of the mounted component.
IsOverdue(c, deadline, t) ==
  IF c = "App" THEN AppIsOverdue(deadline, t) ELSE TodoAppIsOverdue(deadline, t)

GetDeadlineStatus(c, deadline, completed, t) ==
  IF c = "App" THEN AppGetDeadlineStatus(deadline, completed, t)
  ELSE TodoAppGetDeadlineStatus(deadline, completed, t)

\* The ranks with none as the most urgent.
StatusRankNoneFirst(status) ==
  CASE status = "overdue" -> 1 [] status = "today" -> 2 [] status = "soon" -> 3
    [] status = "normal" -> 4 [] status = "none" -> 0

\* const priority = { overdue: 0, today: 1, soon: 2, normal: 3, none: 4 }
StatusRank(status) ==
  CASE status = "overdue" -> 0 [] status = "today" -> 1 [] status = "soon" -> 2
    [] status = "normal" -> 3 [] status = "none" -> 4

\* The comparator with a task without deadline before one with a deadline.
CompareTodosNoDeadlineFirst(c, sortBy, a, b, t) ==
  IF sortBy = "deadline"
    THEN IF a.deadline = <<>> /\ b.deadline = <<>> THEN b.createdAt - a.createdAt
         ELSE IF a.deadline = <<>> THEN -1
         ELSE IF b.deadline = <<>> THEN 1
         ELSE a.deadline[1] - b.deadline[1]
  ELSE IF sortBy = "priority"
    THEN StatusRank(GetDeadlineStatus(c, a.deadline, a.completed, t))
           - StatusRank(GetDeadlineStatus(c, b.deadline, b.completed, t))
  ELSE b.createdAt - a.createdAt

\* The comparator of sortedTodos, the same in both components.
CompareTodos(c, sortBy, a, b, t) ==
  IF sortBy = "deadline"
    THEN IF a.deadline = <<>> /\ b.deadline = <<>> THEN b.createdAt - a.createdAt
         ELSE IF a.deadline = <<>> THEN 1
         ELSE IF b.deadline = <<>> THEN -1
         ELSE a.deadline[1] - b.deadline[1]
  ELSE IF sortBy = "priority"
    THEN StatusRank(GetDeadlineStatus(c, a.deadline, a.completed, t))
           - StatusRank(GetDeadlineStatus(c, b.deadline, b.completed, t))
  ELSE b.createdAt - a.createdAt

\* Array.prototype.sort is stable: x goes behind the elements it does not
\* precede.
RECURSIVE InsertTodo(_, _, _, _, _)
InsertTodo(c, sortBy, t, sorted, x) ==
  IF sorted = <<>> THEN <<x>>
  ELSE IF CompareTodos(c, sortBy, sorted[Len(sorted)], x, t) <= 0
    THEN Append(sorted, x)
  ELSE Append(InsertTodo(c, sortBy, t, SubSeq(sorted, 1, Len(sorted) - 1), x),
              sorted[Len(sorted)])

RECURSIVE SortTodos(_, _, _, _)
SortTodos(c, sortBy, t, list) ==
  IF list = <<>> THEN <<>>
  ELSE InsertTodo(c, sortBy, t,
                  SortTodos(c, sortBy, t, SubSeq(list, 1, Len(list) - 1)),
                  list[Len(list)])

SortedTodos(st, t) == SortTodos(st.component, st.sortBy, t, st.todos)

FilteredTodos(st, t) ==
  SelectSeq(SortedTodos(st, t),
            LAMBDA todo :
              CASE st.filter = "active" -> ~todo.completed
                [] st.filter = "completed" -> todo.completed
                [] st.filter = "overdue" ->
                     IsOverdue(st.component, todo.deadline, t) /\ ~todo.completed
                [] OTHER -> TRUE)

\* What a render of the component in state st shows at instant t, its
\* const now = new Date(): the tasks shown with their deadline status, and
\* the counts of the header.
Rendered(st, t) ==
  LET shown == FilteredTodos(st, t)
      count(Test(_)) == Len(SelectSeq(st.todos, Test))
  IN [component |-> st.component, at |-> t,
      rows |-> [i \in 1..Len(shown) |->
                  [todo |-> shown[i],
                   status |-> GetDeadlineStatus(st.component, shown[i].deadline,
                                                shown[i].completed, t)]],
      total |-> Len(st.todos),
      completedCount |-> count(LAMBDA d : d.completed),
      activeCount |-> count(LAMBDA d : ~d.completed),
      overdueCount |->
        count(LAMBDA d : IsOverdue(st.component, d.deadline, t) /\ ~d.completed)]

\* A render of the mounted component.
Render ==
  /\ client.component \in {"App", "TodoApp"}
  /\ view' = Rendered(client, now)
  /\ UNCHANGED <<todos, nextId, now, inflight, res, log, writing, client, zone>>

\* The user picks a filter view or a sort key, and the component renders.
SetFilter(filter) ==
  /\ view # <<>>
  /\ client' = [client EXCEPT !.filter = filter]
  /\ view' = Rendered(client', now)
  /\ UNCHANGED <<todos, nextId, now, inflight, res, log, writing, zone>>

SetSortBy(sortBy) ==
  /\ view # <<>>
  /\ client' = [client EXCEPT !.sortBy = sortBy]
  /\ view' = Rendered(client', now)
  /\ UNCHANGED <<todos, nextId, now, inflight, res, log, writing, zone>>

\* ------------------------------------------------ the actions of a user

\* The time of day T23:59.
LastMinute == 23 * Hour + 59

\* new Date(`${date}T${time}`): the instant of a date and a time of day that
\* are read as local time; dates are counted in days.
LocalInstant(date, time) == date * Day + time - zone

\* The deadline of addTodo and saveEdit from the date and time inputs.
DeadlineOf(date, time) ==
  IF date = <<>> THEN <<>>
  ELSE IF time # <<>> THEN <<LocalInstant(date[1], time[1])>>
  ELSE <<LocalInstant(date[1], LastMinute)>>

\* date.toISOString().split('T')[0]: the date in UTC.
IsoDate(t) == t \div Day

\* date.toTimeString().slice(0, 5): the time of day in local time.
LocalTime(t) == (t + zone) % Day

\* The positions of the list whose task is shown under the filter.
Shown(st) ==
  {i \in 1..Len(st.todos) :
     \E j \in 1..Len(FilteredTodos(st, now)) :
       FilteredTodos(st, now)[j] = st.todos[i]}

\* The task in editing is shown, with its edit inputs and Save and Cancel.
EditShown(st) == \E i \in Shown(st) : st.editingId = <<st.todos[i].id>>

\* list.map(todo => todo.id === id ? f(todo) : todo)
MapTodo(list, id, f(_)) ==
  [i \in 1..Len(list) |-> IF list[i].id = id THEN f(list[i]) ELSE list[i]]

\* App.addTodo: the identifier is Date.now().
AppAddTodo(text, date, time) ==
  /\ client.component = "App"
  /\ IF Trim(text) # <<>>
       THEN client' = [client EXCEPT
                         !.todos = <<[id |-> now, text |-> Trim(text),
                                      completed |-> FALSE,
                                      deadline |-> DeadlineOf(date, time),
                                      createdAt |-> now]>> \o @]
       ELSE UNCHANGED client
  /\ UNCHANGED idle

\* App.toggleTodo, from the checkbox of a task that is shown.
AppToggleTodo(i) ==
  /\ client.component = "App"
  /\ i \in Shown(client)
  /\ client' = [client EXCEPT
                  !.todos = MapTodo(@, client.todos[i].id,
                                    LAMBDA todo :
                                      [todo EXCEPT !.completed = ~todo.completed])]
  /\ UNCHANGED idle

\* App.deleteTodo, from the Delete button of a task that is not in editing.
AppDeleteTodo(i) ==
  /\ client.component = "App"
  /\ i \in Shown(client)
  /\ client.editingId # <<client.todos[i].id>>
  /\ client' = [client EXCEPT
                  !.todos = SelectSeq(@, LAMBDA todo :
                                           todo.id # client.todos[i].id)]
  /\ UNCHANGED idle

\* App.startEdit, from the Edit button of a task that is not in editing.
AppStartEdit(i) ==
  /\ client.component = "App"
  /\ i \in Shown(client)
  /\ client.editingId # <<client.todos[i].id>>
  /\ LET todo == client.todos[i]
     IN client' = [client EXCEPT
                     !.editingId = <<todo.id>>,
                     !.editText = todo.text,
                     !.editDeadline = IF todo.deadline # <<>>
                                        THEN <<IsoDate(todo.deadline[1])>>
                                        ELSE <<>>,
                     !.editTime = IF todo.deadline # <<>>
                                    THEN <<LocalTime(todo.deadline[1])>>
                                    ELSE <<>>]
  /\ UNCHANGED idle

\* The onChange of the edit inputs of the task in editing, in both components.
SetEditText(text) ==
  /\ EditShown(client)
  /\ client' = [client EXCEPT !.editText = text]
  /\ UNCHANGED idle

SetEditDeadline(date) ==
  /\ EditShown(client)
  /\ client' = [client EXCEPT !.editDeadline = date]
  /\ UNCHANGED idle

SetEditTime(time) ==
  /\ EditShown(client)
  /\ client' = [client EXCEPT !.editTime = time]
  /\ UNCHANGED idle

\* App.saveEdit, from the Save button or Enter in the text of the edit.
AppSaveEdit ==
  /\ client.component = "App"
  /\ EditShown(client)
  /\ client' = [client EXCEPT
                  !.todos =
                    IF Trim(client.editText) # <<>>
                      THEN MapTodo(@, client.editingId[1],
                                   LAMBDA todo :
                                     [todo EXCEPT
                                        !.text = Trim(client.editText),
                                        !.deadline =
                                          DeadlineOf(client.editDeadline,
                                                     client.editTime)])
                      ELSE @,
                  !.editingId = <<>>, !.editText = <<>>,
                  !.editDeadline = <<>>, !.editTime = <<>>]
  /\ UNCHANGED idle

\* App.cancelEdit, from the Cancel button.
AppCancelEdit ==
  /\ client.component = "App"
  /\ EditShown(client)
  /\ client' = [client EXCEPT !.editingId = <<>>, !.editText = <<>>,
                              !.editDeadline = <<>>, !.editTime = <<>>]
  /\ UNCHANGED idle


\* ------------------------------------------------------------ the system

\* Time passes between requests and between the store calls of a request.
Tick ==
  /\ now < MaxNow
  /\ now' = now + 1
  /\ UNCHANGED <<todos, nextId, inflight, res>>

Init ==
  /\ todos = {}
  /\ nextId = 0
  /\ now = 1
  /\ inflight = <<>>
  /\ res = [op |-> "none", user |-> "nobody", status |-> 0]
  /\ log = <<>>
  /\ writing = <<>>
  /\ client = NoClient /\ view = <<>> /\ zone = 0

\* Request arguments.
Text1 == <<"A", "b">>
Text2 == <<"a", ".">>
Category1 == <<"w">>
IdArgs == {IntArg(i) : i \in 1..MaxTodos} \cup {Junk}

\* Texts and categories with surrounding blanks, at and over the length limits.
TextPadded == <<" ">> \o Text1 \o <<" ">>
TextFull == Repeat("a", MaxTextLen) \o <<" ">>
TextLong == Repeat("a", MaxTextLen + 1)
CategoryPadded == <<" ", "x">>
CategoryFull == <<" ">> \o Repeat("b", MaxCategoryLen)
CategoryLong == Repeat("b", MaxCategoryLen + 1)

Query(page, limit, completed, category, search, sortBy, sortOrder) ==
  [page |-> page, limit |-> limit, completed |-> completed,
   category |-> category, search |-> search, sortBy |-> sortBy,
   sortOrder |-> sortOrder]

NoQuery == Query(Absent, Absent, <<>>, <<>>, <<>>, <<>>, <<>>)

Body(text, completed, deadline, priority, category) ==
  [text |-> text, completed |-> completed, deadline |-> deadline,
   priority |-> priority, category |-> category]

\* Requests of the sequences of operations: a create with defaults, a create
\* with every optional field, a create without text; updates of the completed
\* flag and of the deadline; lists with and without a filter.
CreateBodies ==
  {Body(<<Text1>>, <<>>, Absent, <<>>, <<>>),
   Body(<<Text2>>, <<>>, DateArg(1), <<PriorityHigh>>, <<Category1>>),
   Body(<<>>, <<>>, Absent, <<>>, <<>>)}

UpdateBodies ==
  {Body(<<>>, <<"true">>, Absent, <<>>, <<>>),
   Body(<<>>, <<"false">>, Absent, <<>>, <<>>),
   Body(<<>>, <<>>, NullArg, <<>>, <<>>),
   Body(<<>>, <<>>, DateArg(MaxNow), <<>>, <<>>),
   Body(<<>>, <<"maybe">>, Absent, <<>>, <<>>)}

Queries ==
  {NoQuery,
   Query(Absent, IntArg(1), <<"true">>, <<>>, <<>>, <<>>, <<>>),
   Query(IntArg(0), Absent, <<>>, <<>>, <<>>, <<>>, <<>>)}

Actions == BulkActions \cup {"archive-all"}

Next ==
  \/ UNCHANGED others /\ Tick
  \/ UNCHANGED others /\ \E u \in Users, q \in Queries : ListTodos(u, q)
  \/ UNCHANGED others /\ \E u \in Users, id \in IdArgs : GetTodo(u, id)
  \/ UNCHANGED others /\ \E u \in Users, b \in CreateBodies : CreateTodo(u, b)
  \/ UNCHANGED others
       /\ \E u \in Users, id \in IdArgs, b \in UpdateBodies : UpdateTodo(u, id, b)
  \/ UNCHANGED others /\ \E u \in Users, id \in IdArgs : DeleteTodo(u, id)
  \/ UNCHANGED others /\ \E u \in Users : GetStats(u)
  \/ UNCHANGED others /\ \E u \in Users, a \in Actions : BulkTodos(u, a)

Spec == Init /\ [][Next]_vars

\* ------------------------------------------- one request on a fixed store

\* Number of documents in a store a single request is served on.
MaxListed == 3

\* Documents the handlers can have stored under identifier id: fresh and
\* completed ones, of both users, with and without each optional field.
Stored(id) ==
  LET t == Min(id, MaxNow)
      done(d) == [d EXCEPT !.completed = TRUE, !.updatedAt = MaxNow]
  IN {NewTodo(id, "u1", Text1, <<>>, <<>>, <<>>, t),
      done(NewTodo(id, "u1", Text2, <<1>>, <<PriorityHigh>>, <<Category1>>, t)),
      NewTodo(id, "u1", Text2, <<MaxNow>>, <<PriorityLow>>, <<Category1>>, t),
      done(NewTodo(id, "u1", Text1, <<>>, <<PriorityLow>>, <<>>, t)),
      NewTodo(id, "u2", Text1, <<1>>, <<PriorityHigh>>, <<Category1>>, t)}

Stores ==
  {S \in SUBSET UNION {Stored(id) : id \in 1..MaxListed} :
     \A d, e \in S : d.id = e.id => d = e}

InitList ==
  /\ todos \in Stores
  /\ nextId = MaxListed
  /\ now = MaxNow
  /\ inflight = <<>>
  /\ res = [op |-> "none", user |-> "nobody", status |-> 0]
  /\ log = <<>>
  /\ writing = <<>>
  /\ client = NoClient /\ view = <<>> /\ zone = 0

Pages == {Absent, IntArg(0), IntArg(1), IntArg(2), IntArg(3), Junk}
Limits == {Absent, IntArg(0), IntArg(1), IntArg(2), IntArg(MaxLimit),
           IntArg(MaxLimit + 1), Junk}
Completeds == {<<>>, <<"true">>, <<"false">>, <<"1">>, <<"0">>, <<"maybe">>}
Categories == {<<>>, <<Category1>>, << <<>> >>}
Searches ==
  {<<>>, <<Text2>>, << <<"B">> >>, << <<" ", "b", " ">> >>, << <<" ">> >>,
   <<Repeat("a", MaxSearchLen) \o <<" ">> >>, <<Repeat("a", MaxSearchLen + 1)>>}
SortBys == {<<>>} \cup {<<f>> : f \in SortFields \cup {"user"}}
SortDirs == {<<>>} \cup {<<o>> : o \in SortOrders \cup {"up"}}

\* Every combination of filters; every combination of page, limit and sort;
\* filters together with a page and a sort.
ListQueries ==
  {Query(Absent, Absent, c, g, s, <<>>, <<>>) :
     c \in Completeds, g \in Categories, s \in Searches}
  \cup {Query(p, l, <<>>, <<>>, <<>>, f, o) :
          p \in Pages, l \in Limits, f \in SortBys, o \in SortDirs}
  \cup {Query(p, l, c, <<>>, s, <<"text">>, <<"asc">>) :
          p \in {Absent, IntArg(2)}, l \in {IntArg(1), IntArg(2)},
          c \in {<<"true">>, <<"1">>}, s \in {<<>>, <<Text2>>}}

NextList ==
  \/ res.op = "none" /\ UNCHANGED others
       /\ \E u \in Users, q \in ListQueries : ListTodos(u, q)
  \/ res.op = "none" /\ UNCHANGED others
       /\ \E u \in Users, a \in Actions : BulkTodos(u, a)

\* One list or bulk request served on each store of Stores.
SpecList == InitList /\ [][NextList]_vars

\* ----------------------------------- requests between the list's store calls

RaceQueries ==
  {NoQuery, Query(Absent, Absent, <<"false">>, <<>>, <<>>, <<>>, <<>>)}

NextRace ==
  \/ UNCHANGED others /\ \E u \in Users, q \in RaceQueries : ListFind(u, q)
  \/ UNCHANGED others /\ ListCount
  \/ UNCHANGED others
       /\ \E u \in Users : CreateTodo(u, Body(<<Text1>>, <<>>, Absent, <<>>, <<>>))
  \/ UNCHANGED others
       /\ \E u \in Users, id \in IdArgs :
            UpdateTodo(u, id, Body(<<>>, <<"true">>, Absent, <<>>, <<>>))
  \/ UNCHANGED others /\ \E u \in Users, id \in IdArgs : DeleteTodo(u, id)
  \/ UNCHANGED others /\ \E u \in Users, a \in BulkActions : BulkTodos(u, a)

\* The list handler as two store calls, other requests served in between.
SpecRace == Init /\ [][NextRace]_vars

\* ------------------------------------ a request and the one that follows

PairIds == {IntArg(i) : i \in 1..MaxListed} \cup {Junk}

\* Bodies of POST: every field given, the text alone, fields at their limits,
\* a blank category, and one body for each way of failing.
PairCreateBodies ==
  {Body(<<TextPadded>>, <<>>, DateArg(1), <<PriorityLow>>, <<CategoryPadded>>),
   Body(<<Text2>>, <<>>, Absent, <<>>, <<>>),
   Body(<<TextFull>>, <<>>, DateArg(MaxNow), <<PriorityHigh>>, <<CategoryFull>>),
   Body(<<Text1>>, <<>>, Absent, <<PriorityMedium>>, << <<" ">> >>),
   Body(<<>>, <<>>, Absent, <<>>, <<>>),
   Body(<< <<" ">> >>, <<>>, Absent, <<>>, <<>>),
   Body(<<TextLong>>, <<>>, Absent, <<>>, <<>>),
   Body(<<Text1>>, <<>>, Junk, <<>>, <<>>),
   Body(<<Text1>>, <<>>, NullArg, <<>>, <<>>),
   Body(<<Text1>>, <<>>, WeekArg, <<>>, <<>>),
   Body(<<Text1>>, <<>>, Absent, << <<"x">> >>, <<>>),
   Body(<<Text1>>, <<>>, Absent, <<>>, <<CategoryLong>>)}

\* Bodies of PUT: no field, each field alone, every field, and one body for
\* each way of failing.
PairUpdateBodies ==
  {Body(<<>>, <<>>, Absent, <<>>, <<>>),
   Body(<<TextPadded>>, <<>>, Absent, <<>>, <<>>),
   Body(<<TextFull>>, <<>>, Absent, <<>>, <<>>),
   Body(<<>>, <<"true">>, Absent, <<>>, <<>>),
   Body(<<>>, <<"0">>, Absent, <<>>, <<>>),
   Body(<<>>, <<>>, DateArg(1), <<>>, <<>>),
   Body(<<>>, <<>>, NullArg, <<>>, <<>>),
   Body(<<>>, <<>>, Absent, <<PriorityMedium>>, <<>>),
   Body(<<>>, <<>>, Absent, <<>>, <<CategoryPadded>>),
   Body(<<>>, <<>>, Absent, <<>>, << <<>> >>),
   Body(<<Text2>>, <<"false">>, DateArg(MaxNow), <<PriorityHigh>>, <<CategoryFull>>),
   Body(<< <<" ">> >>, <<>>, Absent, <<>>, <<>>),
   Body(<<TextLong>>, <<>>, Absent, <<>>, <<>>),
   Body(<<>>, <<"maybe">>, Absent, <<>>, <<>>),
   Body(<<>>, <<>>, Junk, <<>>, <<>>),
   Body(<<>>, <<>>, WeekArg, <<>>, <<>>),
   Body(<<>>, <<>>, Absent, << <<"x">> >>, <<>>),
   Body(<<>>, <<>>, Absent, <<>>, <<CategoryLong>>)}

\* The store has issued the identifiers up to the largest one it holds.
InitPair ==
  /\ todos \in Stores
  /\ nextId = Cardinality({i \in 1..MaxListed : \E d \in todos : d.id >= i})
  /\ now = MaxNow
  /\ inflight = <<>>
  /\ res = [op |-> "none", user |-> "nobody", status |-> 0]
  /\ log = <<>>
  /\ writing = <<>>
  /\ client = NoClient /\ view = <<>> /\ zone = 0

NextPair ==
  \/ log = <<>>
       /\ \E u \in Users, id \in PairIds : GetTodo(u, id)
       /\ log' = Append(log, res') /\ UNCHANGED <<writing, clients>>
  \/ log = <<>>
       /\ \E u \in Users, b \in PairCreateBodies : CreateTodo(u, b)
       /\ log' = Append(log, res') /\ UNCHANGED <<writing, clients>>
  \/ log = <<>>
       /\ \E u \in Users, id \in PairIds, b \in PairUpdateBodies :
            UpdateTodo(u, id, b)
       /\ log' = Append(log, res') /\ UNCHANGED <<writing, clients>>
  \/ log = <<>>
       /\ \E u \in Users, id \in PairIds : DeleteTodo(u, id)
       /\ log' = Append(log, res') /\ UNCHANGED <<writing, clients>>
  \/ log = <<>>
       /\ \E u \in Users, a \in Actions : BulkTodos(u, a)
       /\ log' = Append(log, res') /\ UNCHANGED <<writing, clients>>
  \/ Len(log) = 1 /\ res.op = "bulk" /\ res.status = 200
       /\ BulkTodos(res.user, res.action)
       /\ log' = Append(log, res') /\ UNCHANGED <<writing, clients>>
  \/ Len(log) = 1 /\ res.op = "create" /\ res.status = 201
       /\ GetTodo(res.user, IntArg(res.data.id))
       /\ log' = Append(log, res') /\ UNCHANGED <<writing, clients>>

\* One request served on each store of Stores, then the caller's next one.
SpecPair == InitPair /\ [][NextPair]_vars

\* ------------------------------ requests during a bulk action's store call

\* updateMany and deleteMany are called outside a transaction: the store
\* writes the documents that match one at a time, each write atomic, and
\* serves other operations between two of them.  The call begins by matching.
BulkBegin(u, action) ==
  /\ writing = <<>>
  /\ action \in BulkActions
  /\ writing' = <<[user |-> u, action |-> action,
                   left |-> {d.id : d \in BulkMatch(u, action)},
                   written |-> {}]>>
  /\ UNCHANGED <<todos, nextId, now, inflight, res, log, clients>>

\* The write of one document: it is written if it still matches the filter.
BulkWrite ==
  /\ writing # <<>>
  /\ LET w == writing[1]
     IN \E id \in w.left :
          LET S == {d \in BulkMatch(w.user, w.action) : d.id = id}
          IN /\ todos' = IF w.action = "complete-all"
                           THEN (todos \ S) \cup CompleteAll(S, now)
                           ELSE todos \ S
             /\ writing' = <<[w EXCEPT !.left = @ \ {id},
                                       !.written = IF S = {} THEN @
                                                   ELSE @ \cup {id}]>>
  /\ UNCHANGED <<nextId, now, inflight, res, log, clients>>

\* The call returns and the handler answers with the number it wrote.
BulkEnd ==
  /\ writing # <<>>
  /\ writing[1].left = {}
  /\ res' = [op |-> "bulk", user |-> writing[1].user,
             action |-> writing[1].action, status |-> 200,
             modifiedCount |-> Cardinality(writing[1].written)]
  /\ writing' = <<>>
  /\ UNCHANGED <<todos, nextId, now, inflight, log, clients>>

\* The store of a bulk race: the tasks of one user, up to MaxTodos of them.
InitBulkRace ==
  /\ todos \in {S \in Stores : \A d \in S : d.user = "u1" /\ d.id <= MaxTodos}
  /\ nextId = MaxListed
  /\ now = MaxNow
  /\ inflight = <<>>
  /\ res = [op |-> "none", user |-> "nobody", status |-> 0]
  /\ log = <<>>
  /\ writing = <<>>
  /\ client = NoClient /\ view = <<>> /\ zone = 0

NextBulkRace ==
  \/ \E a \in BulkActions : BulkBegin("u1", a)
  \/ BulkWrite
  \/ BulkEnd
  \/ UNCHANGED others /\ ListTodos("u1", NoQuery)
  \/ UNCHANGED others /\ \E id \in IdArgs : GetTodo("u1", id)
  \/ UNCHANGED others /\ GetStats("u1")
  \/ UNCHANGED others
       /\ \E id \in IdArgs :
            UpdateTodo("u1", id, Body(<<>>, <<"false">>, Absent, <<>>, <<>>))

\* A bulk action as the store carries it out, with list, fetch, statistics
\* and update requests of the same user served between its writes.
SpecBulkRace == InitBulkRace /\ [][NextBulkRace]_vars

\* ------------------------------------- the actions of a user of TodoApp

\* The user the component is logged in as.
Me == "u1"

\* Number of requests of TodoApp that await their response.
MaxCalls == 2

\* A handler of TodoApp up to its await: the request leaves with what the
\* response will be handled with, the todos of the render the handler is of.
Call(kind, id, body) ==
  /\ client.component = "TodoApp"
  /\ Cardinality(client.calls) < MaxCalls
  /\ client' = [client EXCEPT
                  !.calls = @ \cup {[kind |-> kind, id |-> id, body |-> body,
                                     todos |-> client.todos]}]
  /\ UNCHANGED idle

\* TodoApp.addTodo up to api.post.
TodoAppAddTodo(text, date, time) ==
  /\ Trim(text) # <<>>
  /\ Call("add", 0,
          Body(<<Trim(text)>>, <<>>,
               IF DeadlineOf(date, time) = <<>> THEN Absent
               ELSE DateArg(DeadlineOf(date, time)[1]),
               <<>>, <<>>))

\* TodoApp.toggleTodo up to api.put.
TodoAppToggleTodo(i) ==
  /\ i \in Shown(client)
  /\ Call("toggle", client.todos[i].id,
          Body(<<>>, IF client.todos[i].completed THEN <<"false">> ELSE <<"true">>,
               Absent, <<>>, <<>>))

\* TodoApp.deleteTodo up to api.delete.
TodoAppDeleteTodo(i) ==
  /\ i \in Shown(client)
  /\ client.editingId # <<client.todos[i].id>>
  /\ Call("delete", client.todos[i].id, Body(<<>>, <<>>, Absent, <<>>, <<>>))

\* TodoApp.startEdit.
TodoAppStartEdit(i) ==
  /\ client.component = "TodoApp"
  /\ i \in Shown(client)
  /\ client.editingId # <<client.todos[i].id>>
  /\ LET todo == client.todos[i]
     IN client' = [client EXCEPT
                     !.editingId = <<todo.id>>,
                     !.editText = todo.text,
                     !.editDeadline = IF todo.deadline # <<>>
                                        THEN <<IsoDate(todo.deadline[1])>>
                                        ELSE <<>>,
                     !.editTime = IF todo.deadline # <<>>
                                    THEN <<LocalTime(todo.deadline[1])>>
                                    ELSE <<>>]
  /\ UNCHANGED idle

\* TodoApp.saveEdit up to api.put; with a blank text it does nothing.
TodoAppSaveEdit ==
  /\ client.component = "TodoApp"
  /\ EditShown(client)
  /\ IF Trim(client.editText) # <<>>
       THEN Call("save", client.editingId[1],
                 Body(<<Trim(client.editText)>>, <<>>,
                      IF client.editDeadline = <<>> THEN NullArg
                      ELSE DateArg(DeadlineOf(client.editDeadline,
                                              client.editTime)[1]),
                      <<>>, <<>>))
       ELSE UNCHANGED <<client, idle>>

\* TodoApp.cancelEdit.
TodoAppCancelEdit ==
  /\ client.component = "TodoApp"
  /\ EditShown(client)
  /\ client' = [client EXCEPT !.editingId = <<>>, !.editText = <<>>,
                              !.editDeadline = <<>>, !.editTime = <<>>]
  /\ UNCHANGED idle

\* The request of a call is served and its response handled; a response that
\* is an error sets the error message only.
TodoAppAdded(call) ==
  /\ client.component = "TodoApp"
  /\ call \in client.calls /\ call.kind = "add"
  /\ CreateTodo(Me, call.body)
  /\ client' = [client EXCEPT
                  !.calls = @ \ {call},
                  !.todos = IF res'.status = 201
                              THEN <<res'.data>> \o call.todos ELSE @]
  /\ UNCHANGED <<writing, view, zone>>

TodoAppToggled(call) ==
  /\ client.component = "TodoApp"
  /\ call \in client.calls /\ call.kind = "toggle"
  /\ UpdateTodo(Me, IntArg(call.id), call.body)
  /\ client' = [client EXCEPT
                  !.calls = @ \ {call},
                  !.todos = IF res'.status = 200
                              THEN MapTodo(call.todos, call.id,
                                           LAMBDA todo : res'.data)
                              ELSE @]
  /\ UNCHANGED <<writing, view, zone>>

TodoAppDeleted(call) ==
  /\ client.component = "TodoApp"
  /\ call \in client.calls /\ call.kind = "delete"
  /\ DeleteTodo(Me, IntArg(call.id))
  /\ client' = [client EXCEPT
                  !.calls = @ \ {call},
                  !.todos = IF res'.status = 200
                              THEN SelectSeq(call.todos,
                                             LAMBDA todo : todo.id # call.id)
                              ELSE @]
  /\ UNCHANGED <<writing, view, zone>>

TodoAppSaved(call) ==
  /\ client.component = "TodoApp"
  /\ call \in client.calls /\ call.kind = "save"
  /\ UpdateTodo(Me, IntArg(call.id), call.body)
  /\ client' = IF res'.status = 200
                 THEN [client EXCEPT
                         !.calls = @ \ {call},
                         !.todos = MapTodo(call.todos, call.id,
                                           LAMBDA todo : res'.data),
                         !.editingId = <<>>, !.editText = <<>>,
                         !.editDeadline = <<>>, !.editTime = <<>>]
                 ELSE [client EXCEPT !.calls = @ \ {call}]
  /\ UNCHANGED <<writing, view, zone>>

\* ------------------------------------------ one task rendered by a client

Components == {"App", "TodoApp"}

\* A task of the offline client: its id and createdAt are the time it was
\* added at.
LocalTodo(t, text, completed, deadline) ==
  [id |-> t, text |-> text, completed |-> completed, deadline |-> deadline,
   createdAt |-> t]

\* The latest deadline: later than three days after the latest clock.
MaxDeadline == 3 * Day + MaxNow + 1

StatusDeadlines == {<<>>} \cup {<<t>> : t \in 0..MaxDeadline}

\* One task, added at instant 1, in the list of the component: in TodoApp it
\* is the task of the user in the store, as fetched.
InitStatus ==
  /\ now \in 1..MaxNow
  /\ \E c \in Components, deadline \in StatusDeadlines, completed \in BOOLEAN :
       LET doc == [NewTodo(1, "u1", Text1, deadline, <<>>, <<>>, 1)
                     EXCEPT !.completed = completed]
       IN /\ todos = IF c = "App" THEN {} ELSE {doc}
          /\ nextId = IF c = "App" THEN 0 ELSE 1
          /\ client = [Mounted(c) EXCEPT
                         !.todos = IF c = "App"
                                     THEN <<LocalTodo(1, Text1, completed, deadline)>>
                                     ELSE <<doc>>]
  /\ inflight = <<>>
  /\ res = [op |-> "none", user |-> "nobody", status |-> 0]
  /\ log = <<>>
  /\ writing = <<>>
  /\ view = <<>>
  /\ zone = 0

NextStatus == Render

\* One task of every deadline and state, rendered at every clock.
SpecStatus == InitStatus /\ [][NextStatus]_vars

\* ------------------------------------------------ a list rendered by a client

\* Number of tasks of a rendered list.
MaxViewed == 3

\* The instant of the renders, and deadlines of every status at it: none,
\* one minute past, now, 24 hours ahead, a minute more, more than three days.
ViewNow == 2 * Day
ViewDeadlines ==
  {<<>>, <<ViewNow - 1>>, <<ViewNow>>, <<ViewNow + Day>>, <<ViewNow + Day + 1>>,
   <<ViewNow + 3 * Day + 1>>}

\* The task added as the id-th: a local task in App, a stored one in TodoApp.
ViewTodo(c, id, completed, deadline) ==
  IF c = "App" THEN LocalTodo(id, Text1, completed, deadline)
  ELSE [NewTodo(id, "u1", Text1, deadline, <<>>, <<>>, id)
          EXCEPT !.completed = completed]

\* The lists of n tasks, the newest first as both components keep them.
ViewLists(c, n) ==
  {[i \in 1..n |-> ViewTodo(c, n + 1 - i, f[i][1], f[i][2])] :
     f \in [1..n -> BOOLEAN \X ViewDeadlines]}

\* A component holds a list, which in TodoApp is the user's store as fetched.
InitView ==
  /\ now = ViewNow
  /\ \E c \in Components, n \in 0..MaxViewed :
       \E list \in ViewLists(c, n) :
         /\ todos = IF c = "App" THEN {} ELSE {list[i] : i \in 1..n}
         /\ nextId = IF c = "App" THEN 0 ELSE n
         /\ client = [Mounted(c) EXCEPT !.todos = list]
  /\ inflight = <<>>
  /\ res = [op |-> "none", user |-> "nobody", status |-> 0]
  /\ log = <<>>
  /\ writing = <<>>
  /\ view = <<>>
  /\ zone = 0

NextView ==
  \/ Render
  \/ \E filter \in {"all", "active", "completed", "overdue"} : SetFilter(filter)
  \/ \E sortBy \in {"created", "deadline", "priority"} : SetSortBy(sortBy)

\* Lists of every mix of deadlines and states, rendered under every filter
\* and sort key.
SpecView == InitView /\ [][NextView]_vars

\* ------------------------------------------------- TodoApp's first fetch

\* Number of tasks of the user in the store: one more than a page holds.
MaxFetched == DefaultLimit + 1

\* TodoApp.fetchTodos, called once when the component has mounted: the
\* request, its response and the render that follows setTodos.
TodoAppFetchTodos ==
  /\ client.component = "TodoApp"
  /\ view = <<>>
  /\ ListTodos(Me, NoQuery)
  /\ client' = [client EXCEPT !.todos = IF res'.status = 200 THEN res'.data ELSE @]
  /\ view' = Rendered(client', now)
  /\ UNCHANGED <<writing, zone>>

\* TodoApp has mounted; the user's store holds tasks without deadline, added
\* one after the other, some of them completed.
InitFetch ==
  /\ now = MaxFetched + 1
  /\ \E n \in 0..MaxFetched :
       \E completed \in [1..n -> BOOLEAN] :
         /\ todos = {ViewTodo("TodoApp", i, completed[i], <<>>) : i \in 1..n}
         /\ nextId = n
  /\ client = Mounted("TodoApp")
  /\ inflight = <<>>
  /\ res = [op |-> "none", user |-> "nobody", status |-> 0]
  /\ log = <<>>
  /\ writing = <<>>
  /\ view = <<>>
  /\ zone = 0

NextFetch ==
  \/ UNCHANGED log /\ TodoAppFetchTodos
  \/ UNCHANGED others /\ GetStats(Me)

\* The first fetch of TodoApp, and the statistics of its user.
SpecFetch == InitFetch /\ [][NextFetch]_vars

\* -------------------------------------------- the user's actions on a list

\* Offsets of local time from UTC: none, two hours east, five hours west.
Zones == {0, 2 * Hour, -5 * Hour}

\* Lists of the offline client: a task without deadline, added at instant 1,
\* and a later one due at 23:00 UTC of day 1, pending or completed.
AppLists ==
  LET X == LocalTodo(1, Text1, FALSE, <<>>)
      Y(completed) == LocalTodo(MaxNow, Text2, completed, <<Day + 23 * Hour>>)
  IN {<<>>, <<X>>, <<Y(FALSE), X>>, <<Y(TRUE), X>>}

\* What the user types and picks.
AddTexts == {Text1, <<" ">>}
EditTexts == {TextPadded, <<" ">>}
EditDates == {<<>>, <<1>>}
EditTimes == {<<>>, <<Hour>>}

\* The component is mounted with a list: one of AppLists in App; in TodoApp
\* the user's tasks in the store, up to MaxTodos of them, as fetched.
InitEdit ==
  /\ now = MaxNow + 1
  /\ zone \in Zones
  /\ \/ /\ todos = {} /\ nextId = 0
        /\ \E list \in AppLists : client = [Mounted("App") EXCEPT !.todos = list]
     \/ /\ todos \in {S \in Stores : \A d \in S : d.user = Me /\ d.id <= MaxTodos}
        /\ nextId = Cardinality({i \in 1..MaxTodos : \E d \in todos : d.id >= i})
        /\ \E list \in FindPage(Me, NoQuery) :
             client = [Mounted("TodoApp") EXCEPT !.todos = list]
  /\ inflight = <<>>
  /\ res = [op |-> "none", user |-> "nobody", status |-> 0]
  /\ log = <<>>
  /\ writing = <<>>
  /\ view = <<>>

\* Number of actions of the user in one run.
MaxClicks == 4

\* The user acts at an instant later than that of the action before.
Click == now < MaxNow + 1 + MaxClicks /\ now' = now + 1

\* A response is handled, at the instant of the user's last action.
Handled == now' = now /\ log' = <<>>

\* The log keeps, after a startEdit, the edit it was called in.
StartedFrom(i) ==
  <<[op |-> "startEdit", id |-> client.todos[i].id,
     editingId |-> client.editingId, editText |-> client.editText,
     todos |-> client.todos]>>

NextEdit ==
  \/ Click /\ log' = <<>>
       /\ \E text \in AddTexts, date \in EditDates, time \in EditTimes :
            AppAddTodo(text, date, time)
  \/ Click /\ log' = <<>> /\ \E i \in 1..Len(client.todos) : AppToggleTodo(i)
  \/ Click /\ log' = <<>> /\ \E i \in 1..Len(client.todos) : AppDeleteTodo(i)
  \/ Click /\ \E i \in 1..Len(client.todos) : AppStartEdit(i) /\ log' = StartedFrom(i)
  \/ Click /\ log' = <<>> /\ AppSaveEdit
  \/ Click /\ log' = <<>> /\ AppCancelEdit
  \/ Click /\ log' = <<>> /\ \E text \in EditTexts : SetEditText(text)
  \/ Click /\ log' = <<>> /\ \E date \in EditDates : SetEditDeadline(date)
  \/ Click /\ log' = <<>> /\ \E time \in EditTimes : SetEditTime(time)
  \/ Click /\ log' = <<>>
       /\ \E text \in AddTexts, date \in EditDates, time \in EditTimes :
            TodoAppAddTodo(text, date, time)
  \/ Click /\ log' = <<>> /\ \E i \in 1..Len(client.todos) : TodoAppToggleTodo(i)
  \/ Click /\ log' = <<>> /\ \E i \in 1..Len(client.todos) : TodoAppDeleteTodo(i)
  \/ Click /\ \E i \in 1..Len(client.todos) : TodoAppStartEdit(i) /\ log' = StartedFrom(i)
  \/ Click /\ log' = <<>> /\ TodoAppSaveEdit
  \/ Click /\ log' = <<>> /\ TodoAppCancelEdit
  \/ Handled /\ \E call \in client.calls : TodoAppAdded(call)
  \/ Handled /\ \E call \in client.calls : TodoAppToggled(call)
  \/ Handled /\ \E call \in client.calls : TodoAppDeleted(call)
  \/ Handled /\ \E call \in client.calls : TodoAppSaved(call)

\* The actions of a user on the list of either component.
SpecEdit == InitEdit /\ [][NextEdit]_vars

\* ------------------------------------------------------------- statistics

\* The tasks the specification calls overdue at instant t.
PastDue(S, t) ==
  {d \in S : ~d.completed /\ d.deadline # <<>> /\ d.deadline[1] < t}

\* C1: the overdue statistic is the number of the caller's tasks that are not
\* completed and have a deadline strictly before the instant of the call; a
\* pending task with no deadline is not counted.
C1_OverdueNeedsDeadline ==
  res.op = "stats" =>
    res.data.overdue = Cardinality(PastDue(OwnedBy(todos, res.user), res.at))

\* C2: in every statistics response total = completed + pending and
\* overdue <= pending, and all four are 0 when the caller has no task.
C2_StatsConsistent ==
  res.op = "stats" =>
    /\ res.data.total = res.data.completed + res.data.pending
    /\ res.data.overdue <= res.data.pending
    /\ res.data.total = Cardinality(OwnedBy(todos, res.user))
    /\ OwnedBy(todos, res.user) = {} =>
         res.data = [total |-> 0, completed |-> 0, pending |-> 0, overdue |-> 0]

\* Statistics over a completed task with a past deadline and a pending one.
C2_Witness ==
  /\ res.op = "stats"
  /\ res.data.total = 2 /\ res.data.completed = 1
  /\ \E d \in OwnedBy(todos, res.user) :
       d.completed /\ d.deadline # <<>> /\ d.deadline[1] < res.at

\* ---------------------------------------------------------- owner isolation

\* The documents a response carries.
ResponseDocs(r) ==
  CASE r.op = "list" /\ r.status = 200 -> {r.data[i] : i \in DOMAIN r.data}
    [] r.op \in {"get", "create", "update"} /\ r.status \in {200, 201} -> {r.data}
    [] OTHER -> {}

\* The number of documents a response counts.
ResponseCount(r) ==
  CASE r.op = "list" /\ r.status = 200 -> r.pagination.totalTodos
    [] r.op = "stats" -> r.data.total
    [] r.op = "bulk" /\ r.status = 200 -> r.modifiedCount
    [] OTHER -> 0

\* C3: a request of one user leaves every task of every other user in the
\* store with every field unchanged, and its response carries and counts
\* only tasks of the caller.
C3_OwnerIsolation ==
  [][res' # res =>
       \A v \in Users \ {res'.user} :
         /\ OwnedBy(todos', v) = OwnedBy(todos, v)
         /\ \A d \in ResponseDocs(res') : d.user # v
         /\ ResponseCount(res') <= Cardinality(todos \ OwnedBy(todos, v))]_vars

\* A delete-all of one user that removed tasks while another user owns one.
C3_Witness ==
  /\ res.op = "bulk" /\ res.status = 200 /\ res.action = "delete-all"
  /\ res.modifiedCount > 0
  /\ \E d \in todos : d.user # res.user

\* ------------------------------------------------------------ complete-all

\* e is d with completed set and nothing else changed, updatedAt included.
OnlyCompleted(d, e) == e = [d EXCEPT !.completed = TRUE]

\* e is d with completed set; the store moved its updatedAt to t.
CompletedAt(d, e, t) == e = [d EXCEPT !.completed = TRUE, !.updatedAt = t]

\* C10 as stated: complete-all sets completed on exactly the caller's pending
\* tasks, changes no other field of them, leaves every other task unchanged
\* and reports the number of tasks that were pending.
C10_CompleteAllOnlyCompleted ==
  [][\A u \in Users :
       BulkTodos(u, "complete-all") =>
         LET pending == {d \in OwnedBy(todos, u) : ~d.completed}
         IN /\ todos \ pending \subseteq todos'
            /\ \A d \in pending : \E e \in todos' : OnlyCompleted(d, e)
            /\ Cardinality(todos') = Cardinality(todos)
            /\ res'.modifiedCount = Cardinality(pending)]_vars

\* C10 amended: complete-all sets completed on exactly the caller's pending
\* tasks and changes no other field of them except the store-maintained
\* updatedAt, leaves every other task (its updatedAt included) unchanged and
\* reports the number of tasks that were pending.
C10_CompleteAllFrame ==
  [][\A u \in Users :
       BulkTodos(u, "complete-all") =>
         LET pending == {d \in OwnedBy(todos, u) : ~d.completed}
         IN /\ todos \ pending \subseteq todos'
            /\ \A d \in pending : \E e \in todos' : CompletedAt(d, e, now)
            /\ Cardinality(todos') = Cardinality(todos)
            /\ res'.modifiedCount = Cardinality(pending)]_vars

\* A complete-all that completed one task of a caller who also owns a task
\* completed at an earlier instant.
C10_Witness ==
  /\ res.op = "bulk" /\ res.status = 200 /\ res.action = "complete-all"
  /\ res.modifiedCount = 1
  /\ \E d, e \in OwnedBy(todos, res.user) :
       /\ d.completed /\ e.completed
       /\ d.updatedAt < e.updatedAt /\ e.createdAt < e.updatedAt

\* ------------------------------------------------------------- the listing

\* s, compared case-insensitively and character for character, is a
\* substring of t.
ContainsIgnoreCase(s, t) ==
  \E i \in 0..(Len(t) - Len(s)) :
    \A j \in 1..Len(s) : ToLower(t[i + j]) = ToLower(s[j])

\* The boolean a completed argument denotes.
Denotes(s) == s \in {"true", "1"}

Supplied(arg) == arg # <<>> /\ Trim(arg[1]) # <<>>

\* The tasks the specification's filters select for a list response.
Selected(r) ==
  {d \in OwnedBy(todos, r.user) :
     /\ r.req.completed # <<>> => d.completed = Denotes(r.req.completed[1])
     /\ Supplied(r.req.category) => d.category = r.req.category
     /\ Supplied(r.req.search) =>
          ContainsIgnoreCase(Trim(r.req.search[1]), d.text)}

Listed(r) == r.op = "list" /\ r.status = 200

\* C4: on a fixed store the listing matches exactly the caller's tasks that
\* satisfy every supplied filter (completed flag, exact category, search
\* text), and totalTodos is the size of that set.
C4_FiltersConjoin ==
  Listed(res) =>
    /\ res.pagination.totalTodos = Cardinality(Selected(res))
    /\ \A i \in DOMAIN res.data : res.data[i] \in Selected(res)

\* C5: with only a search supplied, the listing matches exactly the caller's
\* tasks whose text contains the search string literally, ignoring case.
C5_SearchIsLiteral ==
  Listed(res) /\ Supplied(res.req.search) /\ res.req.completed = <<>>
      /\ res.req.category = <<>> =>
    res.pagination.totalTodos =
      Cardinality({d \in OwnedBy(todos, res.user) :
                     ContainsIgnoreCase(Trim(res.req.search[1]), d.text)})

\* The page and limit a valid request asks for.
AskedPage(q) == IF q.page = Absent THEN DefaultPage ELSE q.page.n
AskedLimit(q) == IF q.limit = Absent THEN DefaultLimit ELSE q.limit.n

\* C6: on a fixed store the items of page p with limit l are the elements at
\* positions (p-1)*l+1 .. min(p*l, n) of the filtered, sorted sequence of the
\* caller's n matching tasks, so there are at most l and at most totalTodos.
C6_PageIsSlice ==
  Listed(res) =>
    LET q == res.req
        p == AskedPage(q)
        l == AskedLimit(q)
        M == {d \in todos : MatchesFilter(d, BuildFilter(res.user, q))}
        n == Cardinality(M)
        first == (p - 1) * l + 1
        last == Min(p * l, n)
    IN /\ \E s \in Sorted(M, SortByOf(q), SortOrderOf(q)) :
            /\ Len(res.data) = IF first > n THEN 0 ELSE last - first + 1
            /\ \A i \in DOMAIN res.data : res.data[i] = s[first + i - 1]
       /\ Len(res.data) <= l
       /\ Len(res.data) <= res.pagination.totalTodos

\* The second page of three matching tasks, one task to a page.
C6_Witness ==
  /\ Listed(res) /\ res.req.page = IntArg(2) /\ res.req.limit = IntArg(1)
  /\ res.pagination.totalTodos = 3 /\ Len(res.data) = 1

\* C7: totalTodos is at least the number of returned items, also when other
\* requests are served between the find query and the count query.
C7_TotalCoversItems ==
  Listed(res) => res.pagination.totalTodos >= Len(res.data)

\* The value of the sort field of a is at most that of b; an absent deadline
\* is below every instant.
FieldLeq(field, a, b) ==
  CASE field = "createdAt" -> a.createdAt <= b.createdAt
    [] field = "deadline" ->
         \/ a.deadline = <<>>
         \/ b.deadline # <<>> /\ a.deadline[1] <= b.deadline[1]
    [] field = "priority" -> a.priority = b.priority \/ StrLess(a.priority, b.priority)
    [] field = "text" -> a.text = b.text \/ StrLess(a.text, b.text)

\* C8: adjacent returned items are in non-decreasing order of the requested
\* sort field (createdAt when none is given) when sortOrder is asc, and in
\* non-increasing order for any other or absent sortOrder.
C8_ItemsOrdered ==
  Listed(res) =>
    LET field == IF res.req.sortBy = <<>> THEN "createdAt" ELSE res.req.sortBy[1]
    IN \A i \in 1..(Len(res.data) - 1) :
         IF res.req.sortOrder = <<"asc">>
           THEN FieldLeq(field, res.data[i], res.data[i + 1])
           ELSE FieldLeq(field, res.data[i + 1], res.data[i])

\* A default listing of tasks created at different instants.
C8_Witness ==
  /\ Listed(res) /\ res.req.sortBy = <<>> /\ res.req.sortOrder = <<>>
  /\ Len(res.data) >= 2
  /\ res.data[1].createdAt > res.data[2].createdAt

\* The fields of a list request that are invalid, the search measured as sent.
Offending(q) ==
  {f \in {"page", "limit", "completed", "search", "sortBy", "sortOrder"} :
     \/ f = "page" /\ q.page # Absent /\ (q.page.k # "int" \/ q.page.n < 1)
     \/ f = "limit" /\ q.limit # Absent
          /\ (q.limit.k # "int" \/ q.limit.n < 1 \/ q.limit.n > MaxLimit)
     \/ f = "completed" /\ q.completed # <<>>
          /\ q.completed[1] \notin {"true", "false", "1", "0"}
     \/ f = "search" /\ q.search # <<>> /\ Len(q.search[1]) > MaxSearchLen
     \/ f = "sortBy" /\ q.sortBy # <<>> /\ q.sortBy[1] \notin SortFields
     \/ f = "sortOrder" /\ q.sortOrder # <<>> /\ q.sortOrder[1] \notin SortOrders}

\* The same, the search measured after its surrounding whitespace is removed.
OffendingTrimmed(q) ==
  (Offending(q) \ {"search"})
    \cup {f \in {"search"} : q.search # <<>> /\ Len(Trim(q.search[1])) > MaxSearchLen}

\* The answer to a request with the offending fields F: a 400 that lists F,
\* no store call, the store unchanged.
Rejected(F) ==
  /\ res'.status = 400
  /\ F \subseteq res'.errors
  /\ todos' = todos /\ inflight' = <<>>

\* C9 as stated: a list request with an invalid page, limit, sortBy,
\* sortOrder or completed, or a search longer than 100 characters, and a bulk
\* request with an unknown action, are answered 400 naming the field, with
\* no store query and the store unchanged.
C9_InvalidRejected ==
  [][/\ res'.op = "list" /\ Offending(res'.req) # {}
          => Rejected(Offending(res'.req))
     /\ res'.op = "bulk" /\ res'.action \notin BulkActions
          => Rejected({"action"})]_vars

\* C9 amended: the same, for a search longer than 100 characters after its
\* surrounding whitespace is trimmed.
C9_InvalidTrimmedRejected ==
  [][/\ res'.op = "list" /\ OffendingTrimmed(res'.req) # {}
          => Rejected(OffendingTrimmed(res'.req))
     /\ res'.op = "bulk" /\ res'.action \notin BulkActions
          => Rejected({"action"})]_vars

\* A list request rejected for its limit alone, on a store with tasks.
C9_Witness ==
  /\ res.op = "list" /\ res.status = 400
  /\ res.req.limit = IntArg(MaxLimit + 1) /\ res.errors = {"limit"}
  /\ OwnedBy(todos, res.user) # {}

\* ------------------------------------------------------- a bulk action twice

\* r answers a bulk request for the given action that was carried out.
BulkDone(r, action) == r.op = "bulk" /\ r.status = 200 /\ r.action = action

\* C11: when a user with a pending task sends complete-all and then at once
\* complete-all again, the first answer counts more than zero tasks, the
\* second counts zero, and the second leaves the store as the first left it.
C11_CompleteAllTwice ==
  [][/\ \A u \in Users :
          (/\ log = <<>>
           /\ \E d \in todos : d.user = u /\ ~d.completed
           /\ BulkTodos(u, "complete-all"))
            => res'.modifiedCount > 0
     /\ (/\ Len(log) = 1
         /\ BulkDone(res, "complete-all")
         /\ res.modifiedCount > 0
         /\ BulkTodos(res.user, "complete-all"))
          => res'.modifiedCount = 0 /\ todos' = todos]_vars

\* complete-all was sent twice by a user who had several pending tasks, beside
\* a pending task of another user.
C11_Witness ==
  /\ Len(log) = 2
  /\ BulkDone(log[1], "complete-all") /\ BulkDone(log[2], "complete-all")
  /\ log[1].user = log[2].user
  /\ log[1].modifiedCount >= 2
  /\ log[2].modifiedCount = 0
  /\ \E d \in todos : d.user # log[1].user /\ ~d.completed

\* C12: delete-all answers with the number of tasks the caller owned, which
\* is more than zero when the caller owned a task, and leaves the caller
\* without a task, completed or pending; delete-all sent again at once
\* answers zero and changes nothing.
C12_DeleteAllTwice ==
  [][/\ \A u \in Users :
          (log = <<>> /\ BulkTodos(u, "delete-all"))
            => /\ res'.modifiedCount = Cardinality(OwnedBy(todos, u))
               /\ OwnedBy(todos, u) # {} => res'.modifiedCount > 0
               /\ OwnedBy(todos', u) = {}
     /\ (/\ Len(log) = 1
         /\ BulkDone(res, "delete-all")
         /\ BulkTodos(res.user, "delete-all"))
          => res'.modifiedCount = 0 /\ todos' = todos]_vars

\* delete-all was sent twice by a user who owned several tasks, beside tasks
\* of another user.
C12_Witness ==
  /\ Len(log) = 2
  /\ BulkDone(log[1], "delete-all") /\ BulkDone(log[2], "delete-all")
  /\ log[1].user = log[2].user
  /\ log[1].modifiedCount >= 2
  /\ log[2].modifiedCount = 0
  /\ OwnedBy(todos, log[1].user) = {}
  /\ todos # {}

\* C13: delete-completed removes the caller's completed tasks and no other
\* task, answers with their number, and leaves each pending task of the
\* caller in the store with every field as it was.
C13_DeleteCompletedFrame ==
  [][\A u \in Users :
       BulkTodos(u, "delete-completed")
         => /\ todos \ todos' = {d \in todos : d.user = u /\ d.completed}
            /\ todos' \subseteq todos
            /\ \A d \in todos : d.user = u /\ ~d.completed => d \in todos'
            /\ res'.modifiedCount
                 = Cardinality({d \in todos : d.user = u /\ d.completed})]_vars

\* delete-completed answered 1 for a user who had two tasks, and the pending
\* one is the task the user is left with.
C13_Witness ==
  /\ Len(log) = 1
  /\ BulkDone(res, "delete-completed")
  /\ res.modifiedCount = 1
  /\ Cardinality(OwnedBy(todos, res.user)) = 1
  /\ \A d \in OwnedBy(todos, res.user) : ~d.completed

\* ------------------------------------------------ a bulk action in progress

\* The tasks a bulk action in progress has yet to write.
Unwritten(w) == {d \in BulkMatch(w.user, w.action) : d.id \in w.left}

\* C14: while a bulk action is carried out, a request of the same user is
\* served on a state in which the action has written none of the tasks it
\* applies to, or all of them.
C14_NoPartialBulk ==
  writing # <<>> => writing[1].written = {} \/ Unwritten(writing[1]) = {}

\* ------------------------------------------------- a task that is not found

\* The identifier names a task of user u.
NamesTaskOf(u, id) == \E d \in todos : id.k = "int" /\ d.id = id.n /\ d.user = u

\* The step answers a request on /todos/:id.
OnOneTodo == res' # res /\ res'.op \in {"get", "update", "delete"}

NotFound(r) == r.status = 404 /\ r.message = "Todo not found"

\* C15 as stated: GET, PUT and DELETE on an identifier that names no task of
\* the caller (none at all, another user's, or a malformed one) answer 404
\* 'Todo not found' and leave the store as it was.
C15_NotFoundAlways ==
  [][OnOneTodo /\ ~NamesTaskOf(res'.user, res'.id)
       => NotFound(res') /\ todos' = todos]_vars

\* C15: GET, DELETE, and PUT with a body that passes validation, on an
\* identifier that names no task of the caller answer 404 'Todo not found';
\* the store is left as it was, also when PUT is rejected for its body.
C15_NotFoundValidBody ==
  [][OnOneTodo /\ ~NamesTaskOf(res'.user, res'.id)
       => /\ todos' = todos
          /\ IF res'.op = "update" /\ UpdateErrors(res'.req) # {}
               THEN res'.status = 400
               ELSE NotFound(res')]_vars

\* A PUT with a valid body on another user's task was answered as not found.
C15_Witness ==
  /\ res.op = "update" /\ NotFound(res)
  /\ res.req.text # <<>>
  /\ \E d \in todos : res.id = IntArg(d.id) /\ d.user # res.user

\* ----------------------------------------------------- the frame of an update

\* The step answers a PUT that was carried out.
Updated == res' # res /\ res'.op = "update" /\ res'.status = 200

\* The task of the PUT as it was before the step.
Before == CHOOSE d \in todos : IntArg(d.id) = res'.id /\ d.user = res'.user

\* The fields of the body that the PUT does not carry keep their values in e,
\* as do the owner, the identifier and the time of creation.
KeepsAbsent(b, d, e) ==
  /\ e.id = d.id /\ e.user = d.user /\ e.createdAt = d.createdAt
  /\ b.text = <<>> => e.text = d.text
  /\ b.completed = <<>> => e.completed = d.completed
  /\ b.deadline.k = "absent" => e.deadline = d.deadline
  /\ b.priority = <<>> => e.priority = d.priority
  /\ b.category = <<>> => e.category = d.category

\* A body with deadline: null leaves the task without a deadline.
ClearsDeadline(b, e) == b.deadline.k = "null" => e.deadline = <<>>

\* C16 as stated: a PUT that succeeds changes the fields its body carries
\* and no other field of the task, the owner and the identifier never;
\* deadline: null leaves the task without deadline and the rest as it was.
C16_UpdateOnlyPresent ==
  [][Updated =>
       LET d == Before
           e == res'.data
       IN /\ todos' = (todos \ {d}) \cup {e}
          /\ KeepsAbsent(res'.req, d, e)
          /\ ClearsDeadline(res'.req, e)
          /\ e.updatedAt = d.updatedAt]_vars

\* C16: a PUT that succeeds changes the fields its body carries and, when
\* one of them took a new value, the store-maintained updatedAt, which
\* becomes the time of the request; it changes no other field of the task
\* and no other task; deadline: null leaves the task without deadline.
C16_UpdateFrame ==
  [][Updated =>
       LET d == Before
           e == res'.data
       IN /\ todos' = (todos \ {d}) \cup {e}
          /\ KeepsAbsent(res'.req, d, e)
          /\ ClearsDeadline(res'.req, e)
          /\ e.updatedAt
               = IF [e EXCEPT !.updatedAt = d.updatedAt] = d
                   THEN d.updatedAt ELSE now]_vars

\* A PUT with deadline: null and no other field was carried out on the
\* pending task that had a deadline, the priority low and a category.
C16_Witness ==
  /\ res.op = "update" /\ res.status = 200
  /\ res.req = Body(<<>>, <<>>, NullArg, <<>>, <<>>)
  /\ res.data \in todos
  /\ res.data.deadline = <<>>
  /\ res.data.text = Text2 /\ ~res.data.completed
  /\ res.data.priority = PriorityLow /\ res.data.category = <<Category1>>

\* ------------------------------------------------- create, then fetch by id

\* A task was created and then fetched by its creator with the identifier
\* the creation returned.
CreatedThenFetched ==
  /\ Len(log) = 2
  /\ log[1].op = "create" /\ log[1].status = 201
  /\ log[2].op = "get" /\ log[2].user = log[1].user
  /\ log[2].id = IntArg(log[1].data.id)

\* The fetch finds the task with the text of the body trimmed, the instant of
\* the body's deadline or none, the body's priority or medium, not completed.
ReadsBack(b, r) ==
  /\ r.status = 200
  /\ r.data.text = Trim(b.text[1])
  /\ r.data.deadline = (IF b.deadline.k = "date" THEN <<b.deadline.n>> ELSE <<>>)
  /\ r.data.priority = (IF b.priority = <<>> THEN PriorityMedium
                        ELSE b.priority[1])
  /\ r.data.completed = FALSE

\* C17 as stated: a task created and fetched at once reads back with the
\* trimmed text, the deadline, the priority and the category of the request,
\* and with the defaults for the fields the request left out.
C17_RoundTrip ==
  CreatedThenFetched
    => /\ ReadsBack(log[1].req, log[2])
       /\ log[2].data.category = log[1].req.category

\* C17: a task created and fetched at once reads back with the trimmed text,
\* the deadline and the priority of the request, with its category trimmed
\* (none when the request's category is blank), and with the defaults for
\* the fields the request left out.
C17_RoundTripTrimmed ==
  CreatedThenFetched
    => /\ ReadsBack(log[1].req, log[2])
       /\ log[2].data.category
            = (IF log[1].req.category = <<>>
                    \/ Trim(log[1].req.category[1]) = <<>>
                 THEN <<>> ELSE <<Trim(log[1].req.category[1])>>)

\* A task created with a padded text, a deadline, the priority low and a
\* padded category was fetched.
C17_Witness ==
  /\ CreatedThenFetched
  /\ log[1].req = Body(<<TextPadded>>, <<>>, DateArg(1), <<PriorityLow>>,
                       <<CategoryPadded>>)
  /\ res = log[2] /\ res.status = 200
  /\ res.data.text = Text1 /\ res.data.deadline = <<1>>

\* ---------------------------------------------------- what a stored task is

\* One owner, a trimmed text that is not empty and within its limit, one of
\* the three priorities, no category or one within its limit, no deadline or
\* an instant.
WellFormed(d) ==
  /\ d.user \in Users
  /\ d.text # <<>> /\ d.text = Trim(d.text) /\ Len(d.text) <= MaxTextLen
  /\ d.priority \in Priorities
  /\ d.category = <<>> \/ Len(d.category[1]) <= MaxCategoryLen
  /\ d.deadline = <<>> \/ d.deadline[1] \in Nat

\* The body, stored by POST or PUT, would make a task that is not well formed.
IllFormed(op, b) ==
  \/ op = "create" /\ b.text = <<>>
  \/ b.text # <<>> /\ (Trim(b.text[1]) = <<>> \/ Len(Trim(b.text[1])) > MaxTextLen)
  \/ b.priority # <<>> /\ b.priority[1] \notin Priorities
  \/ b.category # <<>> /\ Len(Trim(b.category[1])) > MaxCategoryLen
  \/ b.deadline.k \in {"junk", "week"}

\* C18: before and after every request each stored task is well formed, and a
\* POST or PUT whose body would make a task that is not is rejected and
\* leaves the store as it was.
C18_StoredWellFormed ==
  [][/\ \A d \in todos \cup todos' : WellFormed(d)
     /\ (res' # res /\ res'.op \in {"create", "update"}
           /\ IllFormed(res'.op, res'.req))
          => res'.status \in {400, 500} /\ todos' = todos]_vars

\* A PUT with a text over the limit on a task of the caller was rejected.
C18_Witness ==
  /\ res.op = "update" /\ res.status = 400
  /\ res.req.text = <<TextLong>>
  /\ "text" \in res.errors
  /\ NamesTaskOf(res.user, res.id)

\* ------------------------------------------------------ the deadline status

\* The status of a task as the specification defines it: none without a
\* deadline or when completed; else overdue with the deadline before now;
\* else today with at most 24 hours left; else soon when the time left,
\* rounded up to whole days, is at most 3; else normal.
StatusBySpec(deadline, completed, t) ==
  CASE deadline = <<>> \/ completed -> "none"
    [] OTHER ->
         LET left == deadline[1] - t
         IN CASE left < 0 -> "overdue"
              [] left >= 0 /\ left <= 24 * Hour -> "today"
              [] left > 24 * Hour /\ (\E n \in 0..3 : left <= n * Day) -> "soon"
              [] OTHER -> "normal"

\* C19: the status a client renders for a task is one of none, overdue,
\* today, soon, normal, the one the specification defines for the task's
\* deadline and state at the time of the render, and the two clients'
\* getDeadlineStatus return the same for these inputs.
C19_StatusBySpec ==
  view # <<>> =>
    \A i \in DOMAIN view.rows :
      LET todo == view.rows[i].todo
      IN /\ view.rows[i].status
              \in {"none", "overdue", "today", "soon", "normal"}
         /\ view.rows[i].status
              = StatusBySpec(todo.deadline, todo.completed, view.at)
         /\ AppGetDeadlineStatus(todo.deadline, todo.completed, view.at)
              = TodoAppGetDeadlineStatus(todo.deadline, todo.completed, view.at)

\* TodoApp rendered a completed task with a past deadline, which reads none.
C19_Witness ==
  /\ view # <<>>
  /\ view.component = "TodoApp"
  /\ Len(view.rows) = 1
  /\ view.rows[1].todo.completed
  /\ view.rows[1].todo.deadline # <<>>
  /\ view.rows[1].todo.deadline[1] < view.at
  /\ view.rows[1].status = "none"

\* ------------------------------------------------------------------ editing

\* The positions of the list whose task is the one in editing.
EditedPositions(st) ==
  {i \in 1..Len(st.todos) : st.editingId = <<st.todos[i].id>>}

AtMostOneEdited ==
  /\ Len(client.editingId) <= 1
  /\ Cardinality(EditedPositions(client)) <= 1

\* startEdit has just been called while a task was in editing.
Switched == log # <<>> /\ log[1].editingId # <<>>

\* The task of the list the call was made in, by identifier.
TaskOf(list, id) == list[CHOOSE i \in 1..Len(list) : list[i].id = id]

\* The deadline the edit inputs stand for, as the client reads them.
InputsDeadline(st) == DeadlineOf(st.editDeadline, st.editTime)

\* C20: at most one task is in editing in either client, before and after
\* every action; and a startEdit on a task Y called while a task X is in
\* editing makes Y the task in editing, puts Y's stored text and Y's stored
\* deadline into the edit inputs, and changes no stored task, X included.
C20_OneEdited ==
  [][/\ AtMostOneEdited
     /\ AtMostOneEdited'
     /\ Switched' =>
          LET Y == TaskOf(client.todos, log'[1].id)
          IN /\ client'.editingId = <<Y.id>>
             /\ client'.editText = Y.text
             /\ InputsDeadline(client') = Y.deadline
             /\ client'.todos = client.todos
             /\ todos' = todos]_vars


\* Save is pressed, in either client, on the task in editing.
SaveEditCalled == AppSaveEdit \/ TodoAppSaveEdit

\* C21: in either client, saveEdit called while the edit text is empty or
\* blank leaves the list, and so the edited task's text and deadline, as it
\* is, sends no request, changes nothing on the server, and leaves edit
\* mode: no task is in editing afterwards.
C21_BlankSaveExits ==
  [][SaveEditCalled /\ Trim(client.editText) = <<>> =>
       /\ client'.todos = client.todos
       /\ client'.calls = client.calls
       /\ todos' = todos
       /\ client'.editingId = <<>>]_vars


\* ------------------------------------------------ the completed query value

\* C22: a list response to a request whose completed value passed validation
\* carries only tasks whose completed flag is the boolean the value denotes
\* ('true' and '1' denote true, 'false' and '0' false), and, no search being
\* given, counts exactly the caller's tasks that have that flag and the
\* category asked for.
C22_CompletedDenoted ==
  Listed(res) /\ res.req.completed # <<>> =>
    /\ \A d \in ResponseDocs(res) : d.completed = Denotes(res.req.completed[1])
    /\ ~Supplied(res.req.search) =>
         res.pagination.totalTodos = Cardinality(Selected(res))


\* ------------------------------------------------------- the overdue view

\* getDeadlineStatus of the rendering component says overdue.
StatusOverdue(d) ==
  GetDeadlineStatus(view.component, d.deadline, d.completed, view.at) = "overdue"

\* C23: in either client, for every list and time of render, the overdue
\* count is the number of tasks of the list whose getDeadlineStatus is
\* overdue, and under the overdue filter the tasks shown are exactly those;
\* a completed task whose deadline has passed is not among them.
C23_OverdueAgrees ==
  view # <<>> =>
    /\ view.overdueCount = Len(SelectSeq(client.todos, StatusOverdue))
    /\ client.filter = "overdue" =>
         /\ Len(view.rows) = view.overdueCount
         /\ \A i \in DOMAIN view.rows :
              /\ StatusOverdue(view.rows[i].todo)
              /\ ~view.rows[i].todo.completed
              /\ \E j \in DOMAIN client.todos :
                   client.todos[j] = view.rows[i].todo
         /\ \A j \in DOMAIN client.todos :
              StatusOverdue(client.todos[j]) =>
                \E i \in DOMAIN view.rows : view.rows[i].todo = client.todos[j]

\* The overdue view of a list that holds a pending task one minute past its
\* deadline, a completed one past its deadline and a task due right now.
C23_Witness ==
  /\ view # <<>> /\ client.filter = "overdue"
  /\ Len(view.rows) = 1 /\ view.overdueCount = 1
  /\ \E j, k \in DOMAIN client.todos :
       /\ client.todos[j].completed
       /\ client.todos[j].deadline = <<view.at - 1>>
       /\ ~client.todos[k].completed
       /\ client.todos[k].deadline = <<view.at>>


\* ------------------------------------------------------ the sorted views

\* The tasks a view shows, in the order shown.
ShownTodos(v) == [i \in DOMAIN v.rows |-> v.rows[i].todo]

\* The sequence holds every task of the list once and nothing else.
PermutationOf(shown, list) ==
  /\ Len(shown) = Len(list)
  /\ \A j \in DOMAIN list : \E i \in DOMAIN shown : shown[i] = list[j]
  /\ \A i \in DOMAIN shown : \E j \in DOMAIN list : shown[i] = list[j]

\* Deadlines first and ascending, then no deadline by created-at descending.
InDeadlineOrder(shown) ==
  \A i, j \in DOMAIN shown :
    i < j =>
      /\ shown[i].deadline = <<>> => shown[j].deadline = <<>>
      /\ shown[i].deadline # <<>> /\ shown[j].deadline # <<>> =>
           shown[i].deadline[1] <= shown[j].deadline[1]
      /\ shown[i].deadline = <<>> /\ shown[j].deadline = <<>> =>
           shown[i].createdAt >= shown[j].createdAt

\* What a filter view keeps, at the instant t of the render.
InFilter(filter, d, t) ==
  CASE filter = "active" -> ~d.completed
    [] filter = "completed" -> d.completed
    [] filter = "overdue" ->
         ~d.completed /\ d.deadline # <<>> /\ d.deadline[1] < t
    [] OTHER -> TRUE

\* C24: with the sort key deadline, the view of all tasks is a permutation
\* of the list with the tasks that have a deadline first, in ascending
\* order of deadline, and the tasks without one after them, in descending
\* order of created-at; and the view a filter then gives is that sequence
\* restricted to the tasks of the filter, in the same order.
C24_DeadlineOrder ==
  [][/\ view' # <<>> /\ client'.sortBy = "deadline" /\ client'.filter = "all" =>
          /\ PermutationOf(ShownTodos(view'), client'.todos)
          /\ InDeadlineOrder(ShownTodos(view'))
     /\ /\ view # <<>> /\ client.sortBy = "deadline" /\ client.filter = "all"
        /\ client'.sortBy = "deadline"
        => ShownTodos(view')
             = SelectSeq(ShownTodos(view),
                         LAMBDA d : InFilter(client'.filter, d, view'.at))]_vars

\* The active view, sorted by deadline, of a list of three whose newest task
\* has no deadline and whose oldest has one: the oldest is shown first.
C24_Witness ==
  /\ view # <<>> /\ client.sortBy = "deadline" /\ client.filter = "active"
  /\ Len(client.todos) = 3 /\ Len(view.rows) = 2
  /\ view.rows[1].todo = client.todos[3] /\ client.todos[3].deadline # <<>>
  /\ view.rows[2].todo = client.todos[1] /\ client.todos[1].deadline = <<>>


\* The urgency of a task at instant t: overdue 0, today 1, soon 2, normal 3,
\* none 4, by the status the specification defines.
Urgency(d, t) ==
  LET status == StatusBySpec(d.deadline, d.completed, t)
  IN CASE status = "overdue" -> 0 [] status = "today" -> 1
       [] status = "soon" -> 2 [] status = "normal" -> 3 [] OTHER -> 4

\* C25: with the sort key priority, of two tasks shown the one shown first
\* has a rank no greater than the other's, the ranks being overdue 0,
\* today 1, soon 2, normal 3, none 4 of the task's status at the render; so
\* a pending overdue task is never behind a task without deadline, and a
\* completed task has the rank of none.
C25_UrgencyOrder ==
  view # <<>> /\ client.sortBy = "priority" =>
    \A i, j \in DOMAIN view.rows :
      LET a == view.rows[i].todo
          b == view.rows[j].todo
      IN /\ i < j => Urgency(a, view.at) <= Urgency(b, view.at)
         /\ a.completed => Urgency(a, view.at) = 4
         /\ /\ ~a.completed /\ a.deadline # <<>> /\ a.deadline[1] < view.at
            /\ b.deadline = <<>> /\ i # j
            => i < j

\* Sorted by priority, an overdue pending task is shown before the newer
\* task without deadline and the newer completed one past its deadline.
C25_Witness ==
  /\ view # <<>> /\ client.sortBy = "priority" /\ client.filter = "all"
  /\ Len(view.rows) = 3
  /\ view.rows[1].todo = client.todos[3]
  /\ view.rows[1].status = "overdue"
  /\ client.todos[1].deadline = <<>>
  /\ client.todos[2].completed /\ client.todos[2].deadline = <<view.at - 1>>


\* ------------------------------------------- responses that arrive in turn

\* A response of the server has been handled by TodoApp, and it was a
\* success.
Succeeded ==
  /\ Cardinality(client'.calls) < Cardinality(client.calls)
  /\ res'.status \in {200, 201}

\* C26: when TodoApp handles a successful response, whatever actions were
\* issued before it arrived, the list keeps what earlier responses made of
\* it: every task of the list other than the one the response is about
\* stays as it is (no earlier update is lost), and no task comes into the
\* list except the one just created (no deleted task reappears).
C26_NoLostUpdate ==
  [][Succeeded =>
       LET call == CHOOSE c \in client.calls \ client'.calls : TRUE
       IN /\ \A i \in DOMAIN client.todos :
               client.todos[i].id # call.id =>
                 \E j \in DOMAIN client'.todos :
                   client'.todos[j] = client.todos[i]
          /\ \A j \in DOMAIN client'.todos :
               \/ \E i \in DOMAIN client.todos :
                    client.todos[i].id = client'.todos[j].id
               \/ call.kind = "add" /\ client'.todos[j] = res'.data]_vars


\* ------------------------------------------------------------ the first fetch

\* C27: once TodoApp's first fetch has succeeded, its list holds every task
\* of the user in the store, and the Total, Active and Done it displays are
\* the total, pending and completed of the server's statistics, for any
\* number of tasks.
C27_FetchedAll ==
  view # <<>> /\ res.op = "stats" =>
    /\ \A d \in OwnedBy(todos, Me) :
         \E i \in DOMAIN client.todos : client.todos[i] = d
    /\ view.total = res.data.total
    /\ view.activeCount = res.data.pending
    /\ view.completedCount = res.data.completed


\* ------------------------------------------------- an edit saved as loaded

\* C28: saveEdit called right after startEdit, with no edit input changed,
\* leaves the task's deadline at the same instant, whatever the offset of
\* local time: in App the task of the list keeps its deadline, and TodoApp
\* sends the deadline the task has (null when it has none).
C28_EditRoundTrip ==
  [][log # <<>> /\ SaveEditCalled =>
       LET id == log[1].id
           deadline == TaskOf(client.todos, id).deadline
       IN IF client.component = "App"
            THEN TaskOf(client'.todos, id).deadline = deadline
            ELSE \A call \in client'.calls \ client.calls :
                   call.body.deadline
                     = IF deadline = <<>> THEN NullArg
                       ELSE DateArg(deadline[1])]_vars


\* --------------------------------------------------- the task in editing

\* C29: in every state of either client the task in editing, if there is
\* one, is a task of the local list; a delete whose response arrives after
\* startEdit on the same task included.
C29_EditedInList ==
  client.editingId # <<>> =>
    \E i \in DOMAIN client.todos : client.todos[i].id = client.editingId[1]


\* ---------------------------------------------------- the listing by priority

\* The level of a priority: low below medium below high.
PriorityLevel(p) ==
  CASE p = PriorityLow -> 1 [] p = PriorityMedium -> 2 [] p = PriorityHigh -> 3

\* C30: a listing with sortBy=priority is ordered by priority level: with
\* sortOrder=asc no task is listed before one of a lower level (low, then
\* medium, then high), and with any other sortOrder no task is listed before
\* one of a higher level (high, then medium, then low).
C30_PriorityOrder ==
  Listed(res) /\ res.req.sortBy = <<"priority">> =>
    \A i, j \in DOMAIN res.data :
      i < j =>
        IF res.req.sortOrder = <<"asc">>
          THEN PriorityLevel(res.data[i].priority)
                 <= PriorityLevel(res.data[j].priority)
          ELSE PriorityLevel(res.data[i].priority)
                 >= PriorityLevel(res.data[j].priority)

====
